---- MODULE Spec2Model ----
(***************************************************************************)
(* A model of the Rezoomex MCP servers: the OAuth2-style server (its       *)
(* sessionStore, POST /authenticate, POST /token, the bearer-authenticated *)
(* MCP endpoints), the AuthManager session registry, the JSON-RPC          *)
(* tools/call dispatchers of the HTTP server, and the tool catalog's       *)
(* argument validation.                                                    *)
(*                                                                         *)
(* Times are in seconds.  Values drawn from Math.random()/uuidv4() are     *)
(* modelled as values not drawn before (collisions are left out).          *)
(***************************************************************************)
EXTENDS Integers, Sequences, FiniteSets, TLC

VARIABLES
    \* ---- OAuth server (sessionStore and its timers) ----
    sessionStore,   \* Map: key -> JS value
    timers,         \* pending setTimeout callbacks: [key, due]
    now,            \* the OAuth server's clock
    ticks,          \* how many times the clock advanced
    issued,         \* history: code -> the credential obtained when it was minted
    mintedAt,       \* history: code -> the time it was minted at
    redeemed,       \* history: codes a POST /token answered 200 for
    auth0Provider,  \* whether the Auth0 provider is configured (fixed at startup)
    resp,           \* the last HTTP response sent
    \* ---- the upstream API ----
    validTokens,    \* bearer tokens the upstream currently accepts
    \* ---- a server's AuthManager and its requests in flight ----
    clients,        \* AuthManager.clients: sessionId -> handle
    sessions,       \* AuthManager.sessions: sessionId -> createdAt
    inflight,       \* requests suspended at an await
    nextHid,        \* number of the next handle constructed
    drawn,          \* random identifiers drawn so far
    bound,          \* history: sessionIds a successful creation was bound to
    destroyed,      \* history: sessionIds whose session was destroyed
    connections,    \* open event streams: their sessionContext
    event,          \* the last completed operation and what it answered
    \* ---- JSON-RPC entry points ----
    rpc,            \* the last JSON-RPC request handled and the response sent
    stdioCurrent,   \* the stdio server's sessions.get('current'): its client
    \* ---- the registry's clock ----
    clock,          \* Date.now() of the registry's process
    nextSweep,      \* when setInterval next runs cleanupExpiredSessions
    \* ---- calls of the library's functions ----
    validated,      \* the last validateToolInput call and how it ended
    \* ---- requests of the OAuth server, from arrival to answer ----
    tokenRequests,  \* POST /token requests received, and their answers
    \* ---- the AuthManager's other map ----
    tempTokens,     \* AuthManager.tempTokens: tokenId -> {token, createdAt}
    revalidation,   \* the running validateAllSessions call: its array and results
    stdio,   \* the stdio server's stream: lines read, handlers awaiting, stdout
    streams,   \* GET /mcp/execute/:toolName connections: their handler and events
    checked,   \* the last credential or token check: the upstream's answer and the report
    fetched,   \* the last tool operation of the upstream handle: which requests failed, the result
    establishedBy    \* for each handle stored by POST /sse: the X-Session-ID of the request that created it

oauthVars == <<sessionStore, timers, now, ticks, issued, mintedAt, redeemed,
               auth0Provider, resp>>
upstreamVars == <<validTokens>>
regVars == <<clients, sessions, inflight, nextHid, drawn, bound, destroyed,
             connections, event>>
timeVars == <<clock, nextSweep>>
rpcVars == <<rpc, stdioCurrent>>
libVars == <<validated, tokenRequests, tempTokens, revalidation, stdio, streams, checked, fetched, establishedBy>>
vars == <<oauthVars, upstreamVars, regVars, timeVars, rpcVars, libVars>>

----------------------------------------------------------------------------
\* Bounds of the model
MaxCodes == 1
MaxTicks == 2

\* Program constants (seconds)
SESSION_TIMEOUT == 300
sessionTimeout == 86400
sweepInterval == 3600

Users == {"alice", "bob"}
Tokens == {"tok_alice", "tok_bob"}
TokenOf(u) == IF u = "alice" THEN "tok_alice" ELSE "tok_bob"
OwnerOf(t) == IF t = "tok_alice" THEN "alice" ELSE "bob"

Codes == 1..MaxCodes
NoCode == 0
Undefined == "undefined"
AUTH0_CLIENT_ID == "auth0-client"
McpAuth == "mcp-auth"
TickSteps == {2, SESSION_TIMEOUT - 1}

\* JS values held by sessionStore (t is the value's JS type)
JsUndefined == [t |-> "undefined", v |-> Undefined, access_token |-> Undefined]
JsString(s) == [t |-> "string", v |-> s, access_token |-> Undefined]
JsObject(tok) == [t |-> "object", v |-> Undefined, access_token |-> tok]
Truthy(value) == value.t # "undefined"

\* value.access_token: a property read; on a string primitive it is undefined
PropAccessToken(value) ==
    IF value.t = "object" THEN value.access_token ELSE Undefined

\* Map.get / Map.set / Map.delete
MapHas(m, k) == k \in DOMAIN m
MapGet(m, k) == IF k \in DOMAIN m THEN m[k] ELSE JsUndefined
MapSet(m, k, val) == [x \in (DOMAIN m) \cup {k} |-> IF x = k THEN val ELSE m[x]]
MapDelete(m, k) == [x \in (DOMAIN m) \ {k} |-> m[x]]
EmptyMap == [x \in {} |-> Undefined]

AuthCodeKey(c) == <<"auth_code", c>>
AuthSessionKey(s) == <<"auth_session", s>>

NoResp == [route |-> "none", status |-> 0, kind |-> "none", error |-> "none",
           access_token |-> Undefined, code |-> NoCode, grant |-> "none",
           pending |-> FALSE, stored |-> Undefined, storedValid |-> FALSE,
           client |-> "none", state |-> "none", location |-> "none",
           req_state |-> "none", req_session |-> Undefined]

----------------------------------------------------------------------------
\* RezoomexAuthProvider.authenticateWithCredentials: the upstream accepts the
\* pair and returns the user's token, or rejects it
CredentialOutcomes(user, passwordOk) ==
    IF passwordOk /\ TokenOf(user) \in validTokens
    THEN {TokenOf(user)} ELSE {Undefined}

\* What a POST /authenticate response records about the request it answers
AuthenticateResp(state, redirect) ==
    [NoResp EXCEPT !.route = "/authenticate", !.req_state = state,
                   !.req_session = redirect.session]

\* A faulty catch of POST /authenticate that redirects to redirect_uri
AuthenticateCatchRedirects(state, redirect) ==
    [AuthenticateResp(state, redirect) EXCEPT !.status = 302, !.kind = "redirect",
                                              !.state = state,
                                              !.location = redirect.uri]

\* the catch of POST /authenticate: the login form again, with the error
AuthenticateCatch(state, redirect) ==
    [AuthenticateResp(state, redirect) EXCEPT !.status = 200, !.kind = "form_error",
                                              !.state = state,
                                              !.location = redirect.uri]

\* POST /authenticate
PostAuthenticate(user, passwordOk, state, redirect) ==
    \E token \in CredentialOutcomes(user, passwordOk) :
        IF token = Undefined
        THEN /\ resp' = AuthenticateCatch(state, redirect)
             /\ UNCHANGED <<sessionStore, timers, issued, mintedAt>>
        ELSE \E authCode \in Codes \ DOMAIN issued :
             LET stored == MapSet(sessionStore, AuthCodeKey(authCode), JsString(token))
                 sessionData == IF redirect.session = Undefined THEN JsUndefined
                                ELSE MapGet(stored, AuthSessionKey(redirect.session))
             IN
             /\ issued' = MapSet(issued, authCode, token)
             /\ mintedAt' = MapSet(mintedAt, authCode, now)
             /\ timers' = timers \cup {[key |-> AuthCodeKey(authCode),
                                        due |-> now + SESSION_TIMEOUT]}
             /\ IF state = McpAuth
                THEN IF Truthy(sessionData)
                     THEN /\ sessionStore' = MapDelete(stored, AuthSessionKey(redirect.session))
                          /\ resp' = [AuthenticateResp(state, redirect) EXCEPT !.status = 302,
                                          !.kind = "redirect", !.code = authCode,
                                          !.state = sessionData.originalState,
                                          !.location = sessionData.redirectUri]
                     ELSE /\ sessionStore' = stored
                          /\ resp' = [AuthenticateResp(state, redirect) EXCEPT !.status = 200,
                                          !.kind = "success_page", !.code = authCode,
                                          !.state = state, !.stored = token]
                ELSE /\ sessionStore' = stored
                     /\ resp' = [AuthenticateResp(state, redirect) EXCEPT !.status = 302,
                                     !.kind = "redirect", !.code = authCode,
                                     !.state = state, !.location = redirect.uri]

\* What a POST /token response records about the request it answers
TokenResp(grant_type, code, client_id, status, error, access_token) ==
    LET value == MapGet(sessionStore, AuthCodeKey(code)) IN
    [NoResp EXCEPT !.route = "/token", !.status = status,
                   !.kind = IF status = 200 THEN "token" ELSE "oauth_error",
                   !.error = error, !.access_token = access_token,
                   !.code = code, !.grant = grant_type, !.client = client_id,
                   !.pending = Truthy(value),
                   !.stored = value.v,
                   !.storedValid = (value.v \in validTokens)]

\* auth0Provider.exchangeCodeForToken: Auth0 answers with a token or rejects
Auth0ExchangeOutcomes == {"auth0_token", Undefined}

\* A faulty POST /token that looks the code up before it checks grant_type
TokenHandlerLookupFirst(grant_type, code, client_id) ==
    LET authCode == MapGet(sessionStore, AuthCodeKey(code)) IN
    IF ~Truthy(authCode)
    THEN /\ resp' = TokenResp(grant_type, code, client_id, 400, "invalid_grant", Undefined)
         /\ UNCHANGED <<sessionStore, redeemed>>
    ELSE IF grant_type # "authorization_code"
    THEN /\ resp' = TokenResp(grant_type, code, client_id, 400, "unsupported_grant_type", Undefined)
         /\ UNCHANGED <<sessionStore, redeemed>>
    ELSE /\ sessionStore' = MapDelete(sessionStore, AuthCodeKey(code))
         /\ redeemed' = redeemed \cup {code}
         /\ resp' = TokenResp(grant_type, code, client_id, 200, "none",
                              PropAccessToken(authCode))

\* A faulty POST /token that answers from the store and leaves the code there
TokenHandlerKeepsCode(grant_type, code, client_id) ==
    LET authCode == MapGet(sessionStore, AuthCodeKey(code)) IN
    IF ~Truthy(authCode)
    THEN /\ resp' = TokenResp(grant_type, code, client_id, 400, "invalid_grant", Undefined)
         /\ UNCHANGED <<sessionStore, redeemed>>
    ELSE /\ resp' = TokenResp(grant_type, code, client_id, 200, "none",
                              PropAccessToken(authCode))
         /\ UNCHANGED <<sessionStore, redeemed>>

\* A faulty POST /token that drops the code it is given before it looks at
\* the request
TokenHandlerDropsFirst(grant_type, code, client_id) ==
    LET dropped == MapDelete(sessionStore, AuthCodeKey(code))
        authCode == MapGet(sessionStore, AuthCodeKey(code))
    IN
    IF grant_type # "authorization_code"
    THEN /\ resp' = TokenResp(grant_type, code, client_id, 400, "unsupported_grant_type", Undefined)
         /\ sessionStore' = dropped
         /\ UNCHANGED redeemed
    ELSE IF code = NoCode \/ ~Truthy(authCode)
    THEN /\ resp' = TokenResp(grant_type, code, client_id, 400,
                              IF code = NoCode THEN "invalid_request" ELSE "invalid_grant",
                              Undefined)
         /\ UNCHANGED <<sessionStore, redeemed>>
    ELSE /\ sessionStore' = dropped
         /\ redeemed' = redeemed \cup {code}
         /\ resp' = TokenResp(grant_type, code, client_id, 200, "none",
                              PropAccessToken(authCode))

\* POST /token, the handler registered first: Express runs the handlers of a
\* path in registration order and this one always ends the response
TokenHandlerFirst(grant_type, code, client_id) ==
    IF grant_type # "authorization_code"
    THEN /\ resp' = TokenResp(grant_type, code, client_id, 400, "unsupported_grant_type", Undefined)
         /\ UNCHANGED <<sessionStore, redeemed>>
    ELSE IF code = NoCode
    THEN /\ resp' = TokenResp(grant_type, code, client_id, 400, "invalid_request", Undefined)
         /\ UNCHANGED <<sessionStore, redeemed>>
    ELSE IF auth0Provider /\ client_id = AUTH0_CLIENT_ID
    THEN /\ \E tokenData \in Auth0ExchangeOutcomes :
              resp' = IF tokenData # Undefined
                      THEN TokenResp(grant_type, code, client_id, 200, "none", tokenData)
                      ELSE TokenResp(grant_type, code, client_id, 400, "invalid_grant", Undefined)
         /\ UNCHANGED <<sessionStore, redeemed>>
    ELSE LET authCode == MapGet(sessionStore, AuthCodeKey(code)) IN
         IF ~Truthy(authCode)
         THEN /\ resp' = TokenResp(grant_type, code, client_id, 400, "invalid_grant", Undefined)
              /\ UNCHANGED <<sessionStore, redeemed>>
         ELSE /\ sessionStore' = MapDelete(sessionStore, AuthCodeKey(code))
              /\ redeemed' = redeemed \cup {code}
              /\ resp' = TokenResp(grant_type, code, client_id, 200, "none",
                                   PropAccessToken(authCode))

GrantTypes == {"authorization_code", "client_credentials"}
ClientIds == {"rzmx-client", AUTH0_CLIENT_ID}
Redirects == {[uri |-> "base/callback?session=s1", session |-> "s1"],
              [uri |-> "ide/callback", session |-> Undefined]}
States == {McpAuth, "xyz"}

\* GET /authorize, the handler registered first (it always ends the response,
\* so the one registered after it for the same path never runs): a redirect
\* to Auth0, or the login form carrying the request's state and redirect_uri
GetAuthorize(state, redirect, client_id, auth_provider) ==
    /\ resp' = IF auth0Provider /\ (auth_provider = "auth0" \/ client_id = AUTH0_CLIENT_ID)
               THEN [NoResp EXCEPT !.route = "/authorize", !.status = 302,
                                   !.kind = "redirect", !.client = client_id,
                                   !.state = state, !.location = "auth0",
                                   !.req_state = state, !.req_session = redirect.session]
               ELSE [NoResp EXCEPT !.route = "/authorize", !.status = 200,
                                   !.kind = "login_form", !.client = client_id,
                                   !.state = state, !.location = redirect.uri,
                                   !.req_state = state, !.req_session = redirect.session]
    /\ UNCHANGED <<sessionStore, timers, now, ticks, issued, mintedAt, redeemed,
                   auth0Provider>>
    /\ UNCHANGED <<upstreamVars, libVars, regVars, timeVars, rpcVars>>

GetAuthorizeReq ==
    \E state \in States, redirect \in Redirects, client_id \in ClientIds,
       auth_provider \in {"auth0", Undefined} :
        GetAuthorize(state, redirect, client_id, auth_provider)

PostAuthenticateReq ==
    /\ \E user \in Users, passwordOk \in BOOLEAN, state \in States, redirect \in Redirects :
           PostAuthenticate(user, passwordOk, state, redirect)
    /\ UNCHANGED <<now, ticks, redeemed, auth0Provider>>
    /\ UNCHANGED <<upstreamVars, libVars, regVars, timeVars, rpcVars>>

\* GET /callback: with a session key that names a stored CallbackSession and
\* a code, the redirect to the caller's URI (the record is deleted); else a
\* page saying the authentication is complete
GetCallback(state, code, session) ==
    LET sessionData == IF session = Undefined THEN JsUndefined
                       ELSE MapGet(sessionStore, AuthSessionKey(session))
        answered == [NoResp EXCEPT !.route = "/callback", !.code = code,
                                   !.req_state = state, !.req_session = session]
    IN
    /\ IF Truthy(sessionData) /\ code # NoCode
       THEN /\ sessionStore' = MapDelete(sessionStore, AuthSessionKey(session))
            /\ resp' = [answered EXCEPT !.status = 302, !.kind = "redirect",
                                        !.state = sessionData.originalState,
                                        !.location = sessionData.redirectUri]
       ELSE /\ sessionStore' = sessionStore
            /\ resp' = [answered EXCEPT !.status = 200, !.kind = "complete_page"]
    /\ UNCHANGED <<timers, now, ticks, issued, mintedAt, redeemed, auth0Provider>>
    /\ UNCHANGED <<upstreamVars, libVars, regVars, timeVars, rpcVars>>

GetCallbackReq ==
    \E state \in States, code \in Codes \cup {NoCode}, redirect \in Redirects :
        GetCallback(state, code, redirect.session)

PostTokenReq ==
    /\ \E grant_type \in GrantTypes, code \in Codes \cup {NoCode}, client_id \in ClientIds :
           TokenHandlerFirst(grant_type, code, client_id)
    /\ UNCHANGED <<timers, now, ticks, issued, mintedAt, auth0Provider>>
    /\ UNCHANGED <<upstreamVars, libVars, regVars, timeVars, rpcVars>>

\* POST /token with any body: client_id may be absent as well
PostTokenAnyClient ==
    /\ \E grant_type \in GrantTypes, code \in Codes \cup {NoCode},
          client_id \in ClientIds \cup {Undefined} :
           TokenHandlerFirst(grant_type, code, client_id)
    /\ UNCHANGED <<timers, now, ticks, issued, mintedAt, auth0Provider>>
    /\ UNCHANGED <<upstreamVars, libVars, regVars, timeVars, rpcVars>>

\* The POST /token requests followed from arrival to answer, in the order
\* they arrive
TokenRequestIds == <<"first", "second">>

\* A POST /token request of a client of this server (not of Auth0) is
\* received; the requests received before it and not yet answered are in
\* flight with it
TokenRequestArrives ==
    /\ Cardinality(tokenRequests) < Len(TokenRequestIds)
    /\ \E code \in Codes, client_id \in ClientIds \ {AUTH0_CLIENT_ID} :
          tokenRequests' = tokenRequests \cup
              {[rid |-> TokenRequestIds[Cardinality(tokenRequests) + 1], code |-> code,
                client_id |-> client_id,
                pending |-> MapHas(sessionStore, AuthCodeKey(code)),
                overlaps |-> {r.rid : r \in {q \in tokenRequests : q.phase = "received"}},
                phase |-> "received", status |-> 0, error |-> "none",
                access_token |-> Undefined]}
    /\ UNCHANGED <<oauthVars, upstreamVars, regVars, timeVars, rpcVars, validated, tempTokens, revalidation, stdio, streams, checked, fetched, establishedBy>>

\* The handler runs for a received request.  Between sessionStore.get and
\* sessionStore.delete it awaits nothing, so the lookup, the delete and the
\* answer are one step of the event loop
TokenRequestHandled ==
    /\ \E r \in {q \in tokenRequests : q.phase = "received"} :
          /\ TokenHandlerFirst("authorization_code", r.code, r.client_id)
          /\ tokenRequests' = (tokenRequests \ {r}) \cup
                {[r EXCEPT !.phase = "answered", !.status = resp'.status,
                           !.error = resp'.error,
                           !.access_token = resp'.access_token]}
    /\ UNCHANGED <<timers, now, ticks, issued, mintedAt, auth0Provider>>
    /\ UNCHANGED <<upstreamVars, regVars, timeVars, rpcVars, validated, tempTokens, revalidation, stdio, streams, checked, fetched, establishedBy>>

\* A faulty clock step: time passes but the setTimeout callbacks never run
TickWithoutTimers ==
    /\ ticks < MaxTicks
    /\ \E d \in TickSteps : now' = now + d
    /\ ticks' = ticks + 1
    /\ UNCHANGED <<sessionStore, timers, issued, mintedAt, redeemed, auth0Provider, resp>>
    /\ UNCHANGED <<upstreamVars, libVars, regVars, timeVars, rpcVars>>

\* Time passes by d; the setTimeout callbacks that fall due on the way run
\* at their due time (the event loop is idle between requests):
\* sessionStore.delete(key)
Tick ==
    /\ ticks < MaxTicks
    /\ \E d \in TickSteps :
          LET due == {tm \in timers : tm.due <= now + d} IN
          /\ now' = now + d
          /\ timers' = timers \ due
          /\ sessionStore' = [k \in (DOMAIN sessionStore) \ {tm.key : tm \in due}
                                 |-> sessionStore[k]]
    /\ ticks' = ticks + 1
    /\ UNCHANGED <<issued, mintedAt, redeemed, auth0Provider, resp>>
    /\ UNCHANGED <<upstreamVars, libVars, regVars, timeVars, rpcVars>>

\* the upstream stops accepting a token
RevokeToken ==
    /\ \E t \in validTokens : validTokens' = validTokens \ {t}
    /\ UNCHANGED <<oauthVars, regVars, timeVars, rpcVars, libVars>>

----------------------------------------------------------------------------
\* AuthManager (src/lib/auth-manager.js)

\* sessionIds: an absent header, the constant of POST /sse, a uuidv4(), and the
\* `session_${userId}_${Date.now()}_${random}` keys of the OAuth server
NoSessionId == <<>>
McpDefault == <<"mcp-default">>
Uuid(n) == <<"uuid", n>>
SessionKey(userPart, n) == <<"session", userPart, n>>

NoHandle == [hid |-> 0, token |-> Undefined, sid |-> NoSessionId]
\* new RezoomexApiClient(bearerToken): hid tells the objects apart, sid is the
\* sessionId it was created for
Handle(hid, token, sid) == [hid |-> hid, token |-> token, sid |-> sid]

\* RezoomexApiClient.validateSession: true when GET /v1/users/me answers 200,
\* false on any error (a rejected token, a timeout, a network failure)
ValidateSession(client) ==
    IF client.token \in validTokens THEN {TRUE, FALSE} ELSE {FALSE}
\* a tool's request to the upstream: answered, or failed
UpstreamOutcomes(client) ==
    IF client.token \in validTokens THEN {"ok", "error"} ELSE {"error"}

\* A faulty authenticateWithToken that stores before looking at isValid
AuthenticateStoreAlways(isValid, cl, ss, sessionId, client, t) ==
    [clients |-> MapSet(cl, sessionId, client),
     sessions |-> MapSet(ss, sessionId, t),
     result |-> IF isValid THEN client ELSE NoHandle]

\* authenticateWithToken, after `await client.validateSession()`
AuthenticateStore(isValid, cl, ss, sessionId, client, t) ==
    IF isValid
    THEN [clients |-> MapSet(cl, sessionId, client),
          sessions |-> MapSet(ss, sessionId, t),
          result |-> client]
    ELSE [clients |-> cl, sessions |-> ss, result |-> NoHandle]

\* A faulty getClient that returns some registered handle whatever the sessionId
GetClientAny(cl, ss, sessionId, t) ==
    IF DOMAIN cl = {}
    THEN [result |-> NoHandle, sessions |-> ss]
    ELSE [result |-> cl[CHOOSE s \in DOMAIN cl : TRUE], sessions |-> ss]

\* A faulty getClient that leaves createdAt as it was
GetClientWithoutRefresh(cl, ss, sessionId, t) ==
    IF sessionId = NoSessionId \/ ~MapHas(cl, sessionId)
    THEN [result |-> NoHandle, sessions |-> ss]
    ELSE [result |-> cl[sessionId], sessions |-> ss]

\* A faulty getClient that refreshes the timestamp before it looks for the client
GetClientRefreshesUnknown(cl, ss, sessionId, t) ==
    IF sessionId = NoSessionId
    THEN [result |-> NoHandle, sessions |-> ss]
    ELSE [result |-> IF MapHas(cl, sessionId) THEN cl[sessionId] ELSE NoHandle,
          sessions |-> MapSet(ss, sessionId, t)]

\* getClient
GetClient(cl, ss, sessionId, t) ==
    IF sessionId = NoSessionId \/ ~MapHas(cl, sessionId)
    THEN [result |-> NoHandle, sessions |-> ss]
    ELSE [result |-> cl[sessionId], sessions |-> MapSet(ss, sessionId, t)]

\* A faulty clearSession that empties the registry
ClearSessionAll(cl, ss, sessionId) ==
    [clients |-> [x \in {} |-> NoHandle], sessions |-> [x \in {} |-> 0]]

\* clearSession
ClearSession(cl, ss, sessionId) ==
    [clients |-> MapDelete(cl, sessionId), sessions |-> MapDelete(ss, sessionId)]

\* cleanupExpiredSessions
ExpiredSessions(ss, t) == {sid \in DOMAIN ss : t - ss[sid] > sessionTimeout}
\* A faulty sweep that forgets the handle of an expired session
CleanupExpiredTimestamps(cl, ss, t) ==
    [clients |-> cl,
     sessions |-> [sid \in (DOMAIN ss) \ ExpiredSessions(ss, t) |-> ss[sid]]]

CleanupExpiredSessions(cl, ss, t) ==
    [clients |-> [sid \in (DOMAIN cl) \ ExpiredSessions(ss, t) |-> cl[sid]],
     sessions |-> [sid \in (DOMAIN ss) \ ExpiredSessions(ss, t) |-> ss[sid]]]

\* Bound of the model: the lines read from stdin
MaxStdioLines == 3
\* the stdio server's stream before anything is read
NoStdio == [read |-> 0, awaiting |-> {}, stdout |-> <<>>]

\* the GET /mcp/execute/:toolName connections the model follows
StreamIds == {"first", "second"}
\* a connection not yet accepted
NoStream == [phase |-> "none", toolName |-> "none", query |-> {},
             sessionId |-> NoSessionId, client |-> NoHandle,
             events |-> <<>>, ended |-> FALSE, closed |-> FALSE, atClose |-> 0]

----------------------------------------------------------------------------
\* Credential and token checks against the upstream, by what the upstream
\* answers (src/unnamed/part_002, src/lib/auth-manager.js)

\* what axios gets for the request: a status (with or without the expected
\* data), or an error without a response: the timeout of 10000 ms
\* (ECONNABORTED), a refused connection, an unknown host, a reset connection
UpstreamAnswers ==
    {"200", "200_token", "200_no_data", "400", "401", "403", "404", "500", "503",
     "ECONNABORTED", "ECONNREFUSED", "ENOTFOUND", "ECONNRESET"}
NetworkFailures == {"ECONNABORTED", "ECONNREFUSED", "ENOTFOUND", "ECONNRESET"}
CheckFunctions ==
    {"verifyAccessToken", "authenticateWithCredentials", "verifyToken",
     "authenticateWithToken"}

\* no check has run / the checks to run
NoCheck == [fn |-> "none", subject |-> "none", answer |-> "none",
            phase |-> "none", report |-> "none"]
PendingChecks ==
    {[NoCheck EXCEPT !.fn = fn, !.subject = user, !.answer = answer,
                     !.phase = "pending"] :
        fn \in CheckFunctions, user \in Users, answer \in UpstreamAnswers}

\* RezoomexAuthProvider.verifyAccessToken: authInfo, or the one Error its
\* catch throws
VerifyAccessTokenReport(answer) ==
    IF answer \in {"200", "200_token"} THEN "authInfo" ELSE "Invalid access token"

\* RezoomexAuthProvider.authenticateWithCredentials: the token, or the Error
\* its catch throws for error.response?.status and error.code
AuthenticateWithCredentialsReport(answer) ==
    CASE answer \in {"200", "200_token"} -> "access_token"
      [] answer = "401" -> "Invalid email or password"
      [] answer = "404" -> "Authentication endpoint not found"
      [] answer = "ECONNREFUSED" -> "Cannot connect to Rezoomex API"
      [] OTHER -> "Authentication failed: error.message"

\* RezoomexAuthProvider.verifyToken, and what the second POST /token handler
\* answers for it
VerifyTokenReport(answer) ==
    IF answer \in {"200", "200_token", "200_no_data"}
    THEN "access_token" ELSE "invalid_grant"

\* AuthManager.authenticateWithToken over RezoomexApiClient.validateSession:
\* the client, or null after 'Authentication failed - invalid token'
AuthenticateWithTokenReport(answer) ==
    IF answer \in {"200", "200_token", "200_no_data"}
    THEN "client" ELSE "null (invalid token)"

\* the reports that say the credentials, the token or the grant are invalid
InvalidReports ==
    {"Invalid access token", "Invalid email or password", "invalid_grant",
     "null (invalid token)"}

----------------------------------------------------------------------------
\* Tool operations of the upstream handle, by which of their requests fail
\* (src/lib/rezoomex-client.js)

\* the enrichment requests of a story / the secondary requests of an overview
AuxCalls == {"acceptanceCriteria", "testCases", "testData"}
OverviewAux(part) ==
    CASE part = "acceptanceCriteria" -> "elevatorPitch"
      [] part = "testCases" -> "visionStatement"
      [] part = "testData" -> "personas"
FetchTools ==
    {"get_story_range", "get_single_story_details", "get_project_overview",
     "list_projects"}

\* no operation has run / the operations to run: the tool, whether its
\* primary request is answered, and the auxiliary requests that fail
NoOperation == [tool |-> "none", primaryOk |-> TRUE, auxFailed |-> {},
                phase |-> "none", outcome |-> "none", primary |-> "none",
                empty |-> {}]
PendingOperations ==
    {[NoOperation EXCEPT !.tool = tool, !.primaryOk = primaryOk,
                         !.auxFailed = auxFailed, !.phase = "pending"] :
        tool \in FetchTools, primaryOk \in BOOLEAN, auxFailed \in SUBSET AuxCalls}

\* getStoryRange: getUserStories throws into the catch, which rethrows; the
\* three helpers catch their own errors and return []
GetStoryRange(op) ==
    IF ~op.primaryOk
    THEN [op EXCEPT !.phase = "done", !.outcome = "thrown"]
    ELSE [op EXCEPT !.phase = "done", !.outcome = "success", !.primary = "value",
                    !.empty = op.auxFailed]

\* getSingleStoryDetails: the story's own request throws into the catch,
\* which rethrows; Promise.allSettled over the three helpers
GetSingleStoryDetails(op) ==
    IF ~op.primaryOk
    THEN [op EXCEPT !.phase = "done", !.outcome = "thrown"]
    ELSE [op EXCEPT !.phase = "done", !.outcome = "success", !.primary = "value",
                    !.empty = op.auxFailed]

\* getProjectOverview: Promise.allSettled over getProjectDetails and the
\* three others; a rejected one becomes null, and formatProjectOverview
\* reads every part through ?.
GetProjectOverview(op) ==
    [op EXCEPT !.phase = "done", !.outcome = "success",
               !.primary = IF op.primaryOk THEN "value" ELSE "null",
               !.empty = {OverviewAux(part) : part \in op.auxFailed}]

\* getAllProjects: the request that tests a known project is caught inside
\* the loop; the project is left out of the list
GetAllProjects(op) ==
    [op EXCEPT !.phase = "done", !.outcome = "success",
               !.primary = IF op.primaryOk THEN "value" ELSE "empty"]

\* validateAllSessions: no call is running
NoRevalidation ==
    [phase |-> "idle", live |-> {}, todo |-> {},
     current |-> [sid |-> NoSessionId, client |-> NoHandle], results |-> <<>>]

\* A faulty validateAllSessions that reports a failed session and keeps it
RevalidateEntryKeeps(cl, ss, entry, isValid) ==
    [clients |-> cl, sessions |-> ss,
     result |-> [sessionId |-> entry.sid, valid |-> isValid,
                 action |-> IF isValid THEN "kept" ELSE "cleared"]]

\* validateAllSessions, the body of its loop after `await
\* client.validateSession()` (validateSession catches what its request throws
\* and answers false)
RevalidateEntry(cl, ss, entry, isValid) ==
    IF isValid
    THEN [clients |-> cl, sessions |-> ss,
          result |-> [sessionId |-> entry.sid, valid |-> TRUE, action |-> "kept"]]
    ELSE [clients |-> ClearSession(cl, ss, entry.sid).clients,
          sessions |-> ClearSession(cl, ss, entry.sid).sessions,
          result |-> [sessionId |-> entry.sid, valid |-> FALSE, action |-> "cleared"]]

----------------------------------------------------------------------------
\* MCPTools (src/lib/mcp-tools.js): a part of the catalog

NoMinimum == -1000
NoMaximum == 1000
ToolCatalog ==
    {"authenticate", "get_single_story_details", "get_project_overview", "get_user_info"}
AuthenticateTool == "authenticate"
StringProp == [type |-> "string", minimum |-> NoMinimum, maximum |-> NoMaximum]
Schema(tool) ==
    CASE tool = "authenticate" ->
           [required |-> {"email", "password"},
            properties |-> [f \in {"email", "password"} |-> StringProp]]
      [] tool = "get_single_story_details" ->
           [required |-> {"project_id", "persona_id"},
            properties |->
                [f \in {"story_number", "story_id", "project_id", "persona_id"} |->
                    IF f = "story_number"
                    THEN [type |-> "integer", minimum |-> 1, maximum |-> NoMaximum]
                    ELSE StringProp]]
      [] tool = "get_project_overview" ->
           [required |-> {"project_id"},
            properties |-> [f \in {"project_id"} |-> StringProp]]
      [] OTHER ->
           [required |-> {}, properties |-> [f \in {} |-> StringProp]]

\* JS values of tool arguments
ArgString == [t |-> "string", isInt |-> FALSE, numeric |-> FALSE, num |-> 0]
ArgNull == [t |-> "null", isInt |-> FALSE, numeric |-> TRUE, num |-> 0]
\* the integer n, and the number n + 0.5 (num is its floor)
ArgInteger(n) == [t |-> "number", isInt |-> TRUE, numeric |-> TRUE, num |-> n]
ArgFraction(n) == [t |-> "number", isInt |-> FALSE, numeric |-> TRUE, num |-> n]
\* params.arguments: an object (its own fields), or missing
ArgsObject(fields) == [defined |-> TRUE, fields |-> fields]
ArgsMissing == [defined |-> FALSE, fields |-> [f \in {} |-> ArgNull]]

\* A validateToolInput that only looks for the required fields
ValidationErrorsRequiredOnly(schema, input) ==
    {<<"missing", f>> : f \in {f \in schema.required :
            f \notin DOMAIN input.fields \/ input.fields[f].t \in {"null", "undefined"}}}

\* validateToolInput: the messages pushed to errors
ValidationErrors(schema, input) ==
    {<<"missing", f>> : f \in {f \in schema.required :
            f \notin DOMAIN input.fields \/ input.fields[f].t \in {"null", "undefined"}}}
    \cup {<<"integer", f>> : f \in {f \in (DOMAIN schema.properties) \cap (DOMAIN input.fields) :
            schema.properties[f].type = "integer" /\ ~input.fields[f].isInt}}
    \cup {<<"string", f>> : f \in {f \in (DOMAIN schema.properties) \cap (DOMAIN input.fields) :
            schema.properties[f].type = "string" /\ input.fields[f].t # "string"}}
    \cup {<<"minimum", f>> : f \in {f \in (DOMAIN schema.properties) \cap (DOMAIN input.fields) :
            /\ schema.properties[f].minimum # NoMinimum
            /\ input.fields[f].numeric
            /\ input.fields[f].num < schema.properties[f].minimum}}
    \cup {<<"maximum", f>> : f \in {f \in (DOMAIN schema.properties) \cap (DOMAIN input.fields) :
            /\ schema.properties[f].maximum # NoMaximum
            /\ input.fields[f].numeric
            /\ \/ input.fields[f].num > schema.properties[f].maximum
               \/ /\ input.fields[f].num = schema.properties[f].maximum
                  /\ input.fields[f].t = "number"
                  /\ ~input.fields[f].isInt}}

\* validateToolInput: "ok", or what it throws (`f in input` on a missing
\* input is a TypeError)
ValidateToolInput(toolName, input) ==
    IF toolName \notin ToolCatalog THEN "unknown_tool"
    ELSE IF ~input.defined /\ (Schema(toolName).required # {}
                               \/ DOMAIN Schema(toolName).properties # {})
    THEN "type_error"
    ELSE IF ValidationErrors(Schema(toolName), input) # {} THEN "validation_error"
    ELSE "ok"

\* Bound of the model: the integers a caller passes run from 0 to MaxArgument
MaxArgument == 1
\* the values a caller passes for a field
ArgValues ==
    {ArgString, ArgNull} \cup {ArgInteger(n) : n \in 0..MaxArgument}
        \cup {ArgFraction(n) : n \in 0..MaxArgument}
\* the inputs of validateToolInput: undefined, or an object with some of the
\* fields of the catalog's schemas
ToolInputs ==
    {ArgsMissing} \cup
    UNION {{ArgsObject(fields) : fields \in [names -> ArgValues]} :
              names \in SUBSET {"story_number", "project_id", "persona_id"}}
NoValidation == [toolName |-> "none", input |-> ArgsMissing, outcome |-> "none"]

\* callTool up to its first await: what it throws, or "upstream" when it goes
\* on to call the client
CallToolSync(toolName, input, client) ==
    IF toolName \notin ToolCatalog THEN "unknown_tool"
    ELSE IF ValidateToolInput(toolName, input) # "ok"
    THEN ValidateToolInput(toolName, input)
    ELSE IF toolName = AuthenticateTool THEN "authenticate_not_here"
    ELSE IF client = NoHandle THEN "client_required"
    ELSE "upstream"

----------------------------------------------------------------------------
\* Requests of the HTTP server (src/unnamed/part_000)

MaxHandles == 2
MaxUuids == 1
MaxInflight == MaxHandles

ProjectArgs == [f \in {"project_id"} |-> ArgString]
ToolCalls ==
    {[name |-> "get_user_info", arguments |-> ArgsMissing],
     [name |-> "get_project_overview", arguments |-> ArgsObject([f \in {} |-> ArgNull])],
     [name |-> "get_project_overview", arguments |-> ArgsObject(ProjectArgs)],
     [name |-> "no_such_tool", arguments |-> ArgsObject([f \in {} |-> ArgNull])]}
SessionHeaders == {NoSessionId, McpDefault} \cup {Uuid(n) : n \in 1..MaxUuids}
BearerInputs == Tokens \cup {Undefined}

\* The last completed operation: the response of a request, and what its
\* registry operations did
NoEvent == [op |-> "none", route |-> "none", sid |-> NoSessionId,
            name |-> "none", arguments |-> ArgsMissing,
            outcome |-> "none", status |-> 0, code |-> 0,
            looked |-> FALSE, found |-> FALSE, wasDestroyed |-> FALSE, expired |-> FALSE,
            valid |-> FALSE, stored |-> FALSE, rebound |-> FALSE, calls |-> 0,
            handle |-> NoHandle, keyUser |-> Undefined, verified |-> Undefined]

\* a request suspended at an await
FreeRids == (1..MaxInflight) \ {r.rid : r \in inflight}
FreeRid == CHOOSE n \in FreeRids : \A m \in FreeRids : n <= m
CanSuspend == FreeRids # {}
AuthRequest(rid, hid, route, sid, token, call, calls) ==
    [rid |-> rid, kind |-> "auth", route |-> route, sid |-> sid,
     handle |-> Handle(hid, token, sid),
     name |-> call.name, arguments |-> call.arguments, calls |-> calls]
CallRequest(rid, route, sid, client, call, calls) ==
    [rid |-> rid, kind |-> "call", route |-> route, sid |-> sid, handle |-> client,
     name |-> call.name, arguments |-> call.arguments, calls |-> calls]
NoCall == [name |-> "none", arguments |-> ArgsMissing]

\* what a handler's getClient(sessionId) found, for the event
LookupEvent(route, sessionId, look) ==
    [NoEvent EXCEPT !.op = "lookup", !.route = route, !.sid = sessionId,
                    !.looked = TRUE, !.found = (look.result # NoHandle),
                    !.wasDestroyed = (sessionId \in destroyed),
                    !.expired = (MapHas(sessions, sessionId)
                                 /\ clock - sessions[sessionId] > sessionTimeout),
                    !.handle = look.result]

RegistryRoutes == {"/auth/login", "/auth/token", "/sse"}

\* POST /auth/login
PostAuthLogin(user, passwordOk) ==
    /\ \E token \in CredentialOutcomes(user, passwordOk) :
         IF token = Undefined
         THEN /\ event' = [NoEvent EXCEPT !.op = "create", !.route = "/auth/login",
                                           !.outcome = "error", !.status = 401]
              /\ UNCHANGED <<inflight, nextHid, drawn>>
         ELSE /\ nextHid <= MaxHandles /\ CanSuspend
              /\ \E n \in (1..MaxUuids) \ drawn :
                   /\ drawn' = drawn \cup {n}
                   /\ inflight' = inflight \cup
                        {AuthRequest(FreeRid, nextHid, "/auth/login", Uuid(n), token, NoCall, 1)}
              /\ nextHid' = nextHid + 1
              /\ UNCHANGED event
    /\ UNCHANGED <<clients, sessions, bound, destroyed, connections>>
    /\ UNCHANGED <<oauthVars, upstreamVars, libVars, timeVars, rpcVars>>

\* POST /auth/token
PostAuthToken(bearerToken) ==
    /\ IF bearerToken = Undefined
       THEN /\ event' = [NoEvent EXCEPT !.op = "create", !.route = "/auth/token",
                                         !.outcome = "error", !.status = 400]
            /\ UNCHANGED <<inflight, nextHid, drawn>>
       ELSE /\ nextHid <= MaxHandles /\ CanSuspend
            /\ \E n \in (1..MaxUuids) \ drawn :
                 /\ drawn' = drawn \cup {n}
                 /\ inflight' = inflight \cup
                      {AuthRequest(FreeRid, nextHid, "/auth/token", Uuid(n), bearerToken, NoCall, 1)}
            /\ nextHid' = nextHid + 1
            /\ UNCHANGED event
    /\ UNCHANGED <<clients, sessions, bound, destroyed, connections>>
    /\ UNCHANGED <<oauthVars, upstreamVars, libVars, timeVars, rpcVars>>

\* POST /sse, tools/call of the authenticate tool
PostSseAuthenticate(user, passwordOk) ==
    /\ \E token \in CredentialOutcomes(user, passwordOk) :
         IF token = Undefined
         THEN /\ event' = [NoEvent EXCEPT !.op = "create", !.route = "/sse",
                                           !.name = AuthenticateTool,
                                           !.outcome = "error", !.status = 200,
                                           !.code = -32603]
              /\ UNCHANGED <<inflight, nextHid>>
         ELSE /\ nextHid <= MaxHandles /\ CanSuspend
              /\ inflight' = inflight \cup
                   {AuthRequest(FreeRid, nextHid, "/sse", McpDefault, token,
                                [name |-> AuthenticateTool, arguments |-> ArgsMissing], 1)}
              /\ nextHid' = nextHid + 1
              /\ UNCHANGED event
    /\ UNCHANGED <<clients, sessions, drawn, bound, destroyed, connections>>
    /\ UNCHANGED <<oauthVars, upstreamVars, libVars, timeVars, rpcVars>>

\* authenticateWithToken resumes after validateSession, and the handler answers
AuthDone ==
    /\ \E r \in inflight :
         /\ r.kind = "auth" /\ r.route \in RegistryRoutes
         /\ \E isValid \in ValidateSession(r.handle) :
            LET res == AuthenticateStore(isValid, clients, sessions,
                                         r.sid, r.handle, clock)
            IN /\ clients' = res.clients
               /\ sessions' = res.sessions
               /\ bound' = IF res.result # NoHandle THEN bound \cup {r.sid} ELSE bound
               /\ event' = [NoEvent EXCEPT
                              !.op = "create", !.route = r.route,
                              !.sid = r.sid, !.name = r.name,
                              !.outcome = IF res.result # NoHandle THEN "ok" ELSE "error",
                              !.status = IF r.route = "/sse" \/ res.result # NoHandle
                                         THEN 200 ELSE 401,
                              !.code = IF r.route = "/sse" /\ res.result = NoHandle
                                       THEN -32603 ELSE 0,
                              !.valid = isValid,
                              !.stored = MapHas(res.clients, r.sid) /\
                                         res.clients[r.sid] = r.handle,
                              !.rebound = (res.result # NoHandle /\ r.sid \in bound),
                              !.wasDestroyed = (r.sid \in destroyed),
                              !.calls = r.calls, !.handle = res.result]
         /\ inflight' = inflight \ {r}
    /\ UNCHANGED <<nextHid, drawn, destroyed, connections>>
    /\ UNCHANGED <<oauthVars, upstreamVars, libVars, timeVars, rpcVars>>

\* the sessionId a tools/call is served under
CallSessionId(route, header) ==
    IF route = "/sse" /\ header = NoSessionId THEN McpDefault ELSE header

\* POST /sse and POST /mcp, tools/call (on /sse: of any tool but authenticate)
PostToolsCall(route, header, call) ==
    /\ route \in {"/sse", "/mcp"}
    /\ ~(route = "/sse" /\ call.name = AuthenticateTool)
    /\ LET sessionId == CallSessionId(route, header)
           look == GetClient(clients, sessions, sessionId, clock)
           sync == CallToolSync(call.name, call.arguments, look.result)
           answer == [LookupEvent(route, sessionId, look) EXCEPT
                        !.op = "call", !.name = call.name, !.arguments = call.arguments]
       IN IF sessionId = NoSessionId
          THEN /\ event' = [NoEvent EXCEPT !.op = "call", !.route = route,
                                            !.name = call.name,
                                            !.arguments = call.arguments,
                                            !.outcome = "error", !.status = 200,
                                            !.code = -32603]
               /\ UNCHANGED <<sessions, inflight, nextHid>>
          ELSE /\ sessions' = look.sessions
               /\ IF look.result = NoHandle
                  THEN /\ event' = [answer EXCEPT !.outcome = "error", !.status = 200,
                                                   !.code = -32603]
                       /\ UNCHANGED <<inflight, nextHid>>
                  ELSE IF sync # "upstream"
                  THEN /\ event' = [answer EXCEPT !.outcome = "error", !.status = 500,
                                                   !.code = -32603]
                       /\ UNCHANGED <<inflight, nextHid>>
                  ELSE /\ CanSuspend
                       /\ inflight' = inflight \cup
                            {CallRequest(FreeRid, route, sessionId, look.result, call, 1)}
                       /\ UNCHANGED nextHid
                       /\ event' = LookupEvent(route, sessionId, look)
    /\ UNCHANGED <<clients, drawn, bound, destroyed, connections>>
    /\ UNCHANGED <<oauthVars, upstreamVars, libVars, timeVars, rpcVars>>

\* the upstream answers a tool's request, and the handler answers
CallDone ==
    /\ \E r \in inflight :
         /\ r.kind = "call"
         /\ \E outcome \in UpstreamOutcomes(r.handle) :
              event' = [NoEvent EXCEPT
                        !.op = "call", !.route = r.route, !.sid = r.sid,
                        !.name = r.name, !.arguments = r.arguments,
                        !.outcome = outcome,
                        !.status = IF outcome = "ok" \/ r.route \in {"CallTool", "POST /v1/sse"}
                                   THEN 200 ELSE 500,
                        !.code = IF outcome = "ok" THEN 0 ELSE -32603,
                        !.calls = r.calls, !.handle = r.handle]
         /\ inflight' = inflight \ {r}
    /\ UNCHANGED <<clients, sessions, nextHid, drawn, bound, destroyed, connections>>
    /\ UNCHANGED <<oauthVars, upstreamVars, libVars, timeVars, rpcVars>>

\* GET /auth/session/:sessionId
GetAuthSession(sessionId) ==
    /\ sessionId # NoSessionId
    /\ LET look == GetClient(clients, sessions, sessionId, clock)
       IN /\ sessions' = look.sessions
          /\ event' = [LookupEvent("/auth/session/:sessionId", sessionId, look) EXCEPT
                         !.outcome = IF look.result # NoHandle THEN "ok" ELSE "error",
                         !.status = IF look.result # NoHandle THEN 200 ELSE 404]
    /\ UNCHANGED <<clients, inflight, nextHid, drawn, bound, destroyed, connections>>
    /\ UNCHANGED <<oauthVars, upstreamVars, libVars, timeVars, rpcVars>>

\* DELETE /auth/session
DeleteAuthSession(header) ==
    /\ LET res == IF header # NoSessionId THEN ClearSession(clients, sessions, header)
                  ELSE [clients |-> clients, sessions |-> sessions]
       IN /\ clients' = res.clients
          /\ sessions' = res.sessions
          /\ destroyed' = destroyed \cup ({header} \cap DOMAIN clients)
          /\ event' = [NoEvent EXCEPT !.op = "destroy", !.route = "/auth/session",
                                      !.sid = header, !.outcome = "ok", !.status = 200,
                                      !.found = MapHas(clients, header),
                                      !.wasDestroyed = (header \in destroyed)]
    /\ UNCHANGED <<inflight, nextHid, drawn, bound, connections>>
    /\ UNCHANGED <<oauthVars, upstreamVars, libVars, timeVars, rpcVars>>

----------------------------------------------------------------------------
\* JSON-RPC messages

\* the id of a message: a number, a string, null, or no id member at all
IdNumber(n) == [t |-> "number", n |-> n, s |-> ""]
IdString(s) == [t |-> "string", n |-> 0, s |-> s]
IdNull == [t |-> "null", n |-> 0, s |-> ""]
IdUndefined == [t |-> "undefined", n |-> 0, s |-> ""]

\* JS truthiness of an id: undefined, null, 0 and "" are falsy
IdTruthy(id) ==
    /\ id.t \notin {"null", "undefined"}
    /\ ~(id.t = "number" /\ id.n = 0)
    /\ ~(id.t = "string" /\ id.s = "")

\* req.body?.id || null
IdOrNull(id) == IF IdTruthy(id) THEN id ELSE IdNull

\* request.params: an object with its name and arguments, or missing
Params(call) == [defined |-> TRUE, name |-> call.name, arguments |-> call.arguments]
ParamsMissing == [defined |-> FALSE, name |-> Undefined, arguments |-> ArgsMissing]

\* The last JSON-RPC exchange: the request as it arrived (entry, reqId, method,
\* params, session, bearer) and the response sent for it (sent counts the
\* responses written; body is "result" or "error")
NoRpc == [entry |-> "none", reqId |-> IdUndefined, method |-> "none",
          params |-> ParamsMissing, session |-> NoSessionId, bearer |-> Undefined,
          registered |-> FALSE,
          sent |-> 0, status |-> 0, id |-> IdUndefined, body |-> "none",
          code |-> 0, message |-> "none", tools |-> {}, calls |-> 0]

\* The state after start-up: empty stores and registries, every issued token
\* accepted by the upstream, the hourly sweep scheduled.  auth0Configs are the
\* configurations (Auth0 provider present or not) the process may start in.
Init(auth0Configs, validations, checks, operations) ==
    /\ sessionStore = EmptyMap
    /\ timers = {}
    /\ now = 0
    /\ ticks = 0
    /\ issued = EmptyMap
    /\ mintedAt = [x \in {} |-> 0]
    /\ redeemed = {}
    /\ auth0Provider \in auth0Configs
    /\ resp = NoResp
    /\ validTokens = Tokens
    /\ clients = [x \in {} |-> NoHandle]
    /\ sessions = [x \in {} |-> 0]
    /\ inflight = {}
    /\ nextHid = 1
    /\ drawn = {}
    /\ bound = {}
    /\ destroyed = {}
    /\ connections = {}
    /\ event = NoEvent
    /\ rpc = NoRpc
    /\ stdioCurrent = NoHandle
    /\ clock = 0
    /\ nextSweep = sweepInterval
    /\ validated \in validations
    /\ tokenRequests = {}
    /\ revalidation = NoRevalidation
    /\ stdio = NoStdio
    /\ streams = [c \in StreamIds |-> NoStream]
    /\ checked \in checks
    /\ fetched \in operations
    /\ establishedBy = {}
    /\ tempTokens = [x \in {} |-> [token |-> Undefined, createdAt |-> 0]]

NextRegistry ==
    \/ \E user \in Users, passwordOk \in BOOLEAN : PostAuthLogin(user, passwordOk)
    \/ \E bearerToken \in BearerInputs : PostAuthToken(bearerToken)
    \/ \E user \in Users, passwordOk \in BOOLEAN : PostSseAuthenticate(user, passwordOk)
    \/ AuthDone
    \/ \E route \in {"/sse", "/mcp"}, header \in SessionHeaders, call \in ToolCalls :
         PostToolsCall(route, header, call)
    \/ CallDone
    \/ \E sessionId \in SessionHeaders : GetAuthSession(sessionId)
    \/ \E header \in SessionHeaders : DeleteAuthSession(header)

SpecRegistry ==
    /\ Init({FALSE}, {NoValidation}, {NoCheck}, {NoOperation})
    /\ [][NextRegistry]_vars

\* the calls of MCPTools.validateToolInput a caller (callTool, or the test of
\* src/test.js) is about to make
PendingValidations ==
    {[toolName |-> toolName, input |-> input, outcome |-> "pending"] :
        toolName \in ToolCatalog \cup {"no_such_tool"}, input \in ToolInputs}

\* the call is made: it returns true ("ok") or throws
CallValidateToolInput ==
    /\ validated.outcome = "pending"
    /\ validated' = [validated EXCEPT
                        !.outcome = ValidateToolInput(validated.toolName, validated.input)]
    /\ UNCHANGED <<oauthVars, upstreamVars, regVars, timeVars, rpcVars, tokenRequests, tempTokens, revalidation, stdio, streams, checked, fetched, establishedBy>>

NextValidate == CallValidateToolInput

SpecValidate ==
    /\ Init({FALSE}, PendingValidations, {NoCheck}, {NoOperation})
    /\ [][NextValidate]_vars

\* one of the four checks is called and the upstream answers
RunCredentialCheck ==
    /\ checked.phase = "pending"
    /\ checked' = [checked EXCEPT
         !.phase = "done",
         !.report = CASE checked.fn = "verifyAccessToken" ->
                           VerifyAccessTokenReport(checked.answer)
                      [] checked.fn = "authenticateWithCredentials" ->
                           AuthenticateWithCredentialsReport(checked.answer)
                      [] checked.fn = "verifyToken" ->
                           VerifyTokenReport(checked.answer)
                      [] checked.fn = "authenticateWithToken" ->
                           AuthenticateWithTokenReport(checked.answer)]
    /\ UNCHANGED <<oauthVars, upstreamVars, regVars, timeVars, rpcVars, validated,
                   tokenRequests, tempTokens, revalidation, stdio, streams, fetched, establishedBy>>

\* the tool's operation runs against the upstream
RunOperation ==
    /\ fetched.phase = "pending"
    /\ fetched' = CASE fetched.tool = "get_story_range" -> GetStoryRange(fetched)
                    [] fetched.tool = "get_single_story_details" ->
                         GetSingleStoryDetails(fetched)
                    [] fetched.tool = "get_project_overview" -> GetProjectOverview(fetched)
                    [] fetched.tool = "list_projects" -> GetAllProjects(fetched)
    /\ UNCHANGED <<oauthVars, upstreamVars, regVars, timeVars, rpcVars, validated,
                   tokenRequests, tempTokens, revalidation, stdio, streams, checked, establishedBy>>

NextOperations == RunOperation

SpecOperations ==
    /\ Init({FALSE}, {NoValidation}, {NoCheck}, PendingOperations)
    /\ [][NextOperations]_vars

NextChecks == RunCredentialCheck

SpecChecks ==
    /\ Init({FALSE}, {NoValidation}, PendingChecks, {NoOperation})
    /\ [][NextChecks]_vars

\* validateAllSessions is called: Array.from(this.clients.entries()) is taken,
\* and the loop suspends at the validation of its first entry (the entries
\* come in the Map's insertion order, which the model leaves open)
ValidateAllStart ==
    /\ revalidation.phase \in {"idle", "returned"}
    /\ LET entries == {[sid |-> sid, client |-> clients[sid]] : sid \in DOMAIN clients}
       IN IF entries = {}
          THEN revalidation' = [NoRevalidation EXCEPT !.phase = "returned"]
          ELSE \E first \in entries :
                 revalidation' = [NoRevalidation EXCEPT
                                    !.phase = "awaiting", !.live = DOMAIN clients,
                                    !.todo = entries \ {first}, !.current = first]
    /\ UNCHANGED <<oauthVars, upstreamVars, regVars, timeVars, rpcVars, validated,
                   tokenRequests, tempTokens, stdio, streams, checked, fetched, establishedBy>>

\* the validation of the current entry is answered: the session is kept or
\* cleared, the result is pushed, and the loop goes on to the next entry or
\* returns
ValidateAllResume ==
    /\ revalidation.phase = "awaiting"
    /\ \E isValid \in ValidateSession(revalidation.current.client) :
         LET res == RevalidateEntry(clients, sessions, revalidation.current, isValid)
             pushed == Append(revalidation.results,
                              [sessionId |-> res.result.sessionId,
                               valid |-> res.result.valid,
                               action |-> res.result.action,
                               answered |-> isValid])
         IN /\ clients' = res.clients
            /\ sessions' = res.sessions
            /\ destroyed' = destroyed \cup ((DOMAIN clients) \ DOMAIN res.clients)
            /\ IF revalidation.todo = {}
               THEN revalidation' = [revalidation EXCEPT !.phase = "returned",
                                                          !.results = pushed]
               ELSE \E next \in revalidation.todo :
                      revalidation' = [revalidation EXCEPT
                                         !.todo = revalidation.todo \ {next},
                                         !.current = next, !.results = pushed]
    /\ event' = [NoEvent EXCEPT !.op = "revalidate", !.sid = revalidation.current.sid]
    /\ UNCHANGED <<inflight, nextHid, drawn, bound, connections>>
    /\ UNCHANGED <<oauthVars, upstreamVars, timeVars, rpcVars, validated,
                   tokenRequests, tempTokens, stdio, streams, checked, fetched, establishedBy>>

\* The life of a session alone: created by POST /auth/token or by the
\* authenticate tool of POST /sse, looked up, and cleared
NextSessions ==
    \/ \E bearerToken \in BearerInputs : PostAuthToken(bearerToken)
    \/ \E user \in Users, passwordOk \in BOOLEAN : PostSseAuthenticate(user, passwordOk)
    \/ AuthDone
    \/ \E sessionId \in SessionHeaders : GetAuthSession(sessionId)
    \/ \E header \in SessionHeaders : DeleteAuthSession(header)

SpecSessions ==
    /\ Init({FALSE}, {NoValidation}, {NoCheck}, {NoOperation})
    /\ [][NextSessions]_vars

\* The administrative revalidation among the requests that create, read and
\* revoke sessions
NextRevalidate ==
    \/ \E bearerToken \in BearerInputs : PostAuthToken(bearerToken)
    \/ \E user \in Users, passwordOk \in BOOLEAN : PostSseAuthenticate(user, passwordOk)
    \/ AuthDone
    \/ \E header \in SessionHeaders : DeleteAuthSession(header)
    \/ ValidateAllStart
    \/ ValidateAllResume

SpecRevalidate ==
    /\ Init({FALSE}, {NoValidation}, {NoCheck}, {NoOperation})
    /\ [][NextRevalidate]_vars

----------------------------------------------------------------------------
\* Bearer-token endpoints of the OAuth server (src/unnamed/part_002)

MaxKeys == MaxHandles
BearerRoutes == {"GET /mcp", "GET /v1/sse", "POST /v1/sse", "CallTool"}

\* response.data of GET /v1/users/me for a user: the id may come as `id`, as
\* `userId`, or under neither name
IdentityResponses(user) ==
    {[id |-> JsString(user), userId |-> JsUndefined],
     [id |-> JsUndefined, userId |-> JsString(user)],
     [id |-> JsUndefined, userId |-> JsUndefined]}

\* response.data.id || response.data.userId
ExtraUserId(data) == IF Truthy(data.id) THEN data.id ELSE data.userId

\* RezoomexAuthProvider.verifyAccessToken: authInfo, or it throws
VerifyAccessToken(token) ==
    {[ok |-> FALSE, userId |-> JsUndefined]} \cup
    (IF token \in validTokens
     THEN {[ok |-> TRUE, userId |-> ExtraUserId(data)] :
              data \in IdentityResponses(OwnerOf(token))}
     ELSE {})

\* authInfo.extra?.userId || 'anon'
KeyUserPart(userId) == IF Truthy(userId) THEN userId.v ELSE "anon"

\* params?.arguments || {}
ArgumentsOrEmpty(arguments) ==
    IF arguments.defined THEN arguments ELSE ArgsObject([f \in {} |-> ArgNull])

\* GET /mcp and GET /v1/sse: sseAuthMiddleware, then handleMcpSSE
GetMcpSse(route, bearer) ==
    /\ route \in {"GET /mcp", "GET /v1/sse"}
    /\ \E authInfo \in IF bearer = Undefined THEN {[ok |-> FALSE, userId |-> JsUndefined]}
                        ELSE VerifyAccessToken(bearer) :
         IF ~authInfo.ok
         THEN /\ event' = [NoEvent EXCEPT !.op = "connect", !.route = route,
                                           !.outcome = "redirect", !.status = 302]
              /\ UNCHANGED <<connections, drawn>>
         ELSE \E n \in (1..MaxKeys) \ drawn :
                /\ drawn' = drawn \cup {n}
                /\ connections' = connections \cup
                     {[accessToken |-> bearer,
                       sessionId |-> SessionKey(KeyUserPart(authInfo.userId), n)]}
                /\ event' = [NoEvent EXCEPT
                               !.op = "connect", !.route = route,
                               !.sid = SessionKey(KeyUserPart(authInfo.userId), n),
                               !.outcome = "ok", !.status = 200,
                               !.keyUser = KeyUserPart(authInfo.userId),
                               !.verified = OwnerOf(bearer)]
    /\ UNCHANGED <<clients, sessions, inflight, nextHid, bound, destroyed>>
    /\ UNCHANGED <<oauthVars, upstreamVars, libVars, timeVars, rpcVars>>

\* the CallTool handler of a connection's server (createMcpServer)
StreamCallTool(sessionContext, call) ==
    /\ sessionContext \in connections
    /\ nextHid <= MaxHandles /\ CanSuspend
    /\ inflight' = inflight \cup
         {AuthRequest(FreeRid, nextHid, "CallTool", sessionContext.sessionId,
                      sessionContext.accessToken, call, 1)}
    /\ nextHid' = nextHid + 1
    /\ UNCHANGED <<clients, sessions, drawn, bound, destroyed, connections, event>>
    /\ UNCHANGED <<oauthVars, upstreamVars, libVars, timeVars, rpcVars>>

\* POST /v1/sse, tools/call
PostV1Sse(bearer, call) ==
    /\ IF bearer = Undefined
       THEN /\ event' = [NoEvent EXCEPT !.op = "call", !.route = "POST /v1/sse",
                                         !.name = call.name,
                                         !.arguments = call.arguments,
                                         !.outcome = "error", !.status = 401,
                                         !.code = -32001]
            /\ UNCHANGED <<inflight, nextHid, drawn>>
       ELSE \E authInfo \in VerifyAccessToken(bearer) :
              IF ~authInfo.ok
              THEN /\ event' = [NoEvent EXCEPT !.op = "call", !.route = "POST /v1/sse",
                                                !.name = call.name,
                                                !.arguments = call.arguments,
                                                !.outcome = "error", !.status = 500,
                                                !.code = -32603]
                   /\ UNCHANGED <<inflight, nextHid, drawn>>
              ELSE /\ nextHid <= MaxHandles /\ CanSuspend
                   /\ \E n \in (1..MaxKeys) \ drawn :
                        /\ drawn' = drawn \cup {n}
                        /\ inflight' = inflight \cup
                             {AuthRequest(FreeRid, nextHid, "POST /v1/sse",
                                          SessionKey(KeyUserPart(authInfo.userId), n),
                                          bearer,
                                          [name |-> call.name,
                                           arguments |-> ArgumentsOrEmpty(call.arguments)],
                                          1)}
                   /\ nextHid' = nextHid + 1
                   /\ UNCHANGED event
    /\ UNCHANGED <<clients, sessions, bound, destroyed, connections>>
    /\ UNCHANGED <<oauthVars, upstreamVars, libVars, timeVars, rpcVars>>

\* authenticateWithToken resumes in the CallTool handler or in POST /v1/sse,
\* and the handler goes on to callTool
BearerAuthDone ==
    /\ \E r \in inflight :
         /\ r.kind = "auth" /\ r.route \in {"CallTool", "POST /v1/sse"}
         /\ \E isValid \in ValidateSession(r.handle) :
            LET res == AuthenticateStore(isValid, clients, sessions,
                                         r.sid, r.handle, clock)
                sync == IF r.name = AuthenticateTool THEN "authenticate_not_here"
                        ELSE CallToolSync(r.name, r.arguments, res.result)
                created == [NoEvent EXCEPT
                              !.op = "create", !.route = r.route, !.sid = r.sid,
                              !.name = r.name, !.arguments = r.arguments,
                              !.outcome = "ok", !.status = 200,
                              !.valid = isValid,
                              !.stored = MapHas(res.clients, r.sid) /\
                                         res.clients[r.sid] = r.handle,
                              !.rebound = (res.result # NoHandle /\ r.sid \in bound),
                              !.calls = r.calls, !.handle = res.result,
                              !.keyUser = r.sid[2],
                              !.verified = OwnerOf(r.handle.token)]
            IN /\ clients' = res.clients
               /\ sessions' = res.sessions
               /\ bound' = IF res.result # NoHandle THEN bound \cup {r.sid} ELSE bound
               /\ IF res.result = NoHandle \/ sync # "upstream"
                  THEN /\ event' = [created EXCEPT !.op = "call", !.outcome = "error",
                                                    !.code = -32603]
                       /\ inflight' = inflight \ {r}
                  ELSE /\ event' = created
                       /\ inflight' = (inflight \ {r}) \cup
                            {CallRequest(r.rid, r.route, r.sid, res.result,
                                         [name |-> r.name, arguments |-> r.arguments],
                                         r.calls + 1)}
    /\ UNCHANGED <<nextHid, drawn, destroyed, connections>>
    /\ UNCHANGED <<oauthVars, upstreamVars, libVars, timeVars, rpcVars>>

NextBearer ==
    \/ \E route \in {"GET /mcp", "GET /v1/sse"}, bearer \in BearerInputs :
         GetMcpSse(route, bearer)
    \/ \E sessionContext \in connections, call \in ToolCalls :
         StreamCallTool(sessionContext, call)
    \/ \E bearer \in BearerInputs, call \in ToolCalls : PostV1Sse(bearer, call)
    \/ BearerAuthDone
    \/ CallDone

SpecBearer ==
    /\ Init({FALSE}, {NoValidation}, {NoCheck}, {NoOperation})
    /\ [][NextBearer]_vars

----------------------------------------------------------------------------
\* The registry under its clock: sessions age, and setInterval runs the sweep

MaxClock == 90000
AdvanceStep == 1800

Earlier(a, b) == IF a <= b THEN a ELSE b

\* Bound of the model: the temp tokens stored at a time
MaxTempTokens == 1
tempTokenTimeout == 300
tempSweepInterval == 60

\* storeTempToken
StoreTempToken(tt, tokenId, bearerToken, t) ==
    [x \in (DOMAIN tt) \cup {tokenId} |->
        IF x = tokenId THEN [token |-> bearerToken, createdAt |-> t] ELSE tt[x]]

\* cleanupExpiredTempTokens
CleanupExpiredTempTokens(tt, t) ==
    [x \in {y \in DOMAIN tt : ~(t - tt[y].createdAt > tempTokenTimeout)} |-> tt[x]]

\* setInterval(() => this.cleanupExpiredTempTokens(), 60 * 1000): the temp
\* tokens left by the runs that fall between the times t1 (excluded) and t2
MinuteSweeps(tt, t1, t2) ==
    LET last == t2 - (t2 % tempSweepInterval)
    IN IF last > t1 THEN CleanupExpiredTempTokens(tt, last) ELSE tt

\* GET /auth/callback: the token handed over in the query is stored for pickup
\* under 'temp_' + Date.now() + '_' + a random string
GetAuthCallback(access_token) ==
    /\ IF access_token = Undefined
       THEN /\ event' = [NoEvent EXCEPT !.op = "temp_token", !.route = "/auth/callback",
                                         !.outcome = "error", !.status = 302]
            /\ UNCHANGED tempTokens
       ELSE /\ Cardinality(DOMAIN tempTokens) < MaxTempTokens
            /\ \E n \in 1..MaxTempTokens :
                  tempTokens' = StoreTempToken(tempTokens, <<"temp", clock, n>>,
                                               access_token, clock)
            /\ event' = [NoEvent EXCEPT !.op = "temp_token", !.route = "/auth/callback",
                                         !.outcome = "ok", !.status = 302]
    /\ UNCHANGED <<clients, sessions, inflight, nextHid, drawn, bound, destroyed,
                   connections>>
    /\ UNCHANGED <<oauthVars, upstreamVars, timeVars, rpcVars, validated, tokenRequests, revalidation, stdio, streams, checked, fetched, establishedBy>>

\* time passes, up to the next run of the sweep of the sessions; the sweeps of
\* the temp tokens that fall in between run
Advance ==
    /\ clock < MaxClock /\ clock < nextSweep
    /\ clock' = Earlier(clock + AdvanceStep, nextSweep)
    /\ tempTokens' = MinuteSweeps(tempTokens, clock, clock')
    /\ UNCHANGED nextSweep
    /\ UNCHANGED <<oauthVars, upstreamVars, regVars, rpcVars, validated, tokenRequests, revalidation, stdio, streams, checked, fetched, establishedBy>>

\* setInterval(() => this.cleanupExpiredSessions(), 60 * 60 * 1000)
Sweep ==
    /\ clock = nextSweep
    /\ LET res == CleanupExpiredSessions(clients, sessions, clock)
       IN /\ clients' = res.clients
          /\ sessions' = res.sessions
    /\ destroyed' = destroyed \cup ExpiredSessions(sessions, clock)
    /\ nextSweep' = nextSweep + sweepInterval
    /\ event' = [NoEvent EXCEPT !.op = "sweep"]
    /\ UNCHANGED <<inflight, nextHid, drawn, bound, connections, clock>>
    /\ UNCHANGED <<oauthVars, upstreamVars, libVars, rpcVars>>

NextExpiry ==
    \/ \E user \in Users, passwordOk \in BOOLEAN : PostSseAuthenticate(user, passwordOk)
    \/ AuthDone
    \/ \E sessionId \in SessionHeaders : GetAuthSession(sessionId)
    \/ Advance
    \/ Sweep

SpecExpiry ==
    /\ Init({FALSE}, {NoValidation}, {NoCheck}, {NoOperation})
    /\ [][NextExpiry]_vars

----------------------------------------------------------------------------
\* The JSON-RPC entry points: POST /sse and POST /mcp (src/unnamed/part_000),
\* POST /v1/sse (src/unnamed/part_002), stdio (src/unnamed/part_001).  Each
\* handler is one step, from the request to the response it writes.

\* Bound of the model: the handles constructed by these handlers
MaxRpcHandles == 1

\* MCPTools.getToolDefinitions: the tools of the catalog, by name
GetToolDefinitions == ToolCatalog
\* handleToolsList of the stdio server: its own list
StdioTools == {"authenticate", "list_user_stories", "get_user_story"}

RpcIds == {IdNumber(0), IdString("a")}
RpcMethods == {"initialize", "tools/list", "tools/call", "auth/login", "resources/list"}
CredentialArgs == [f \in {"email", "password"} |-> ArgString]
StoryArgs == [f \in {"project_id", "persona_id"} |-> ArgString]
RpcCalls ==
    {[name |-> "get_project_overview", arguments |-> ArgsObject(ProjectArgs)],
     [name |-> "get_project_overview", arguments |-> ArgsObject([f \in {} |-> ArgNull])],
     [name |-> "no_such_tool", arguments |-> ArgsObject([f \in {} |-> ArgNull])],
     [name |-> AuthenticateTool, arguments |-> ArgsObject(CredentialArgs)],
     [name |-> AuthenticateTool, arguments |-> ArgsMissing]}
StdioCalls ==
    {[name |-> "list_user_stories", arguments |-> ArgsObject(StoryArgs)],
     [name |-> "list_user_stories", arguments |-> ArgsMissing],
     [name |-> "no_such_tool", arguments |-> ArgsObject([f \in {} |-> ArgNull])],
     [name |-> AuthenticateTool, arguments |-> ArgsObject(CredentialArgs)],
     [name |-> AuthenticateTool, arguments |-> ArgsMissing]}

\* the requests a client sends: params are read by the methods in `reading`
RpcRequests(reading, calls) ==
    {[id |-> i, method |-> m, params |-> ParamsMissing] :
         i \in RpcIds, m \in RpcMethods}
    \cup {[id |-> i, method |-> m, params |-> Params(c)] :
         i \in RpcIds, m \in reading, c \in calls}
HttpRequests == RpcRequests({"tools/call"}, RpcCalls)
\* X-Session-ID: absent, the constant of POST /sse, or a uuid
RpcHeaders == {NoSessionId, McpDefault, Uuid(1)}
\* a line of the stdio server's input: a request, or text JSON.parse rejects
StdioLines ==
    {[wellFormed |-> TRUE, request |-> r] :
         r \in RpcRequests({"tools/call", "auth/login"}, StdioCalls)}
    \cup {[wellFormed |-> FALSE,
           request |-> [id |-> IdUndefined, method |-> "none", params |-> ParamsMissing]]}
\* the clients of the entry points: one user's credentials and bearer token
RpcUsers == {"alice"}
RpcBearers == {TokenOf(user) : user \in RpcUsers} \cup {Undefined}
\* the random part of the next session key (fresh: not drawn before)
FreeKeys == (1..MaxKeys) \ drawn
FreshKey == IF FreeKeys = {} THEN {} ELSE {CHOOSE n \in FreeKeys : \A m \in FreeKeys : n <= m}

\* what the exchange records about the request
RpcRequest(entry, request, session, bearer) ==
    [NoRpc EXCEPT !.entry = entry, !.reqId = request.id, !.method = request.method,
                  !.params = request.params, !.session = session, !.bearer = bearer,
                  !.registered = (session \in bound)]

\* res.json({jsonrpc, id, result}) / res.json({jsonrpc, id, error: {code, message}})
RpcResult(base, id) ==
    [base EXCEPT !.sent = base.sent + 1, !.status = 200, !.id = id, !.body = "result"]
RpcError(base, status, id, code, message) ==
    [base EXCEPT !.sent = base.sent + 1, !.status = status, !.id = id,
                 !.body = "error", !.code = code, !.message = message]

\* A handler of part_000 whose outer catch is missing: the rejection escapes
\* and nothing is written
NoCatch(base, id, message) == base

\* the outer catch of POST /sse and POST /mcp:
\* res.status(500).json({id: req.body?.id || null, error: {code: -32603, message}})
OuterCatch(base, id, message) ==
    RpcError(base, 500, IdOrNull(id), -32603, message)

\* what a handler did besides answering: the registry it leaves, the handle it
\* constructed (if any) and the random key it drew
Answered(answer) ==
    [rpc |-> answer, clients |-> clients, sessions |-> sessions,
     handles |-> 0, drawn |-> {}, bound |-> {}, handle |-> NoHandle]
Created(answer, res, sessionId, keys) ==
    [rpc |-> answer, clients |-> res.clients, sessions |-> res.sessions,
     handles |-> 1, drawn |-> keys,
     bound |-> IF res.result # NoHandle THEN {sessionId} ELSE {},
     handle |-> res.result]
Looked(answer, look) ==
    [Answered(answer) EXCEPT !.sessions = look.sessions]

\* axios.post(.../auth0/token) for the credentials of some user: its token, or
\* a rejection
LoginOutcomes ==
    UNION {CredentialOutcomes(user, passwordOk) : user \in RpcUsers, passwordOk \in BOOLEAN}

\* `const { email, password } = request.params.arguments` and the check that
\* follows: TRUE when both are there
HasCredentials(arguments) ==
    /\ arguments.defined
    /\ {"email", "password"} \subseteq DOMAIN arguments.fields

\* The authenticate branch of POST /sse and handleAuthLogin of the stdio
\* server: every failure is answered with -32603 under the request's id
AuthenticateAnswers(base, request, status, sessionId, keys) ==
    LET failed == RpcError(base, status, request.id, -32603, "authentication_failed")
    IN IF ~request.params.defined \/ ~HasCredentials(request.params.arguments)
       THEN {Answered(failed)}
       ELSE UNION {
              IF token = Undefined THEN {Answered(failed)}
              ELSE {LET res == AuthenticateStore(isValid, clients, sessions, sessionId,
                                                 Handle(nextHid, token, sessionId), clock)
                    IN Created(IF res.result # NoHandle
                               THEN [RpcResult(base, request.id) EXCEPT !.calls = 1]
                               ELSE [failed EXCEPT !.calls = 1],
                               res, sessionId, keys) :
                    isValid \in ValidateSession(Handle(nextHid, token, sessionId))}
              : token \in LoginOutcomes}

\* `await mcpTools.callTool(name, arguments, client)` and the response built
\* from its result; what it throws goes to the handler's catch
CallToolAnswers(ok, thrown, name, arguments, client) ==
    IF CallToolSync(name, arguments, client) # "upstream"
    THEN {thrown}
    ELSE {IF outcome = "ok" THEN [ok EXCEPT !.calls = ok.calls + 1]
                            ELSE [thrown EXCEPT !.calls = thrown.calls + 1] :
              outcome \in UpstreamOutcomes(client)}

\* POST /mcp
McpAnswers(request, header) ==
    LET base == RpcRequest("POST /mcp", request, header, Undefined)
        look == GetClient(clients, sessions, header, clock)
    IN CASE request.method = "initialize" -> {Answered(RpcResult(base, request.id))}
         [] request.method = "tools/list" ->
              {Answered([RpcResult(base, request.id) EXCEPT !.tools = GetToolDefinitions])}
         [] request.method = "tools/call" ->
              IF header = NoSessionId
              THEN {Answered(RpcError(base, 200, request.id, -32603, "session_id_required"))}
              ELSE IF look.result = NoHandle
              THEN {Looked(RpcError(base, 200, request.id, -32603, "not_authenticated"), look)}
              ELSE IF ~request.params.defined
              THEN {Looked(OuterCatch(base, request.id, "type_error"), look)}
              ELSE {Looked(answer, look) :
                      answer \in CallToolAnswers(RpcResult(base, request.id),
                                                 OuterCatch(base, request.id, "thrown"),
                                                 request.params.name,
                                                 request.params.arguments, look.result)}
         [] OTHER ->
              {Answered(RpcError(base, 200, request.id, -32601, "method_not_found"))}

\* POST /sse
SseAnswers(request, header) ==
    LET base == RpcRequest("POST /sse", request, header, Undefined)
        sessionId == CallSessionId("/sse", header)
        look == GetClient(clients, sessions, sessionId, clock)
    IN CASE request.method = "initialize" -> {Answered(RpcResult(base, request.id))}
         [] request.method = "tools/list" ->
              {Answered([RpcResult(base, request.id) EXCEPT !.tools = GetToolDefinitions])}
         [] request.method = "tools/call" ->
              IF ~request.params.defined
              THEN {Answered(OuterCatch(base, request.id, "type_error"))}
              ELSE IF request.params.name = AuthenticateTool
              THEN AuthenticateAnswers(base, request, 200, McpDefault, {})
              ELSE IF look.result = NoHandle
              THEN {Looked(RpcError(base, 200, request.id, -32603, "not_authenticated"), look)}
              ELSE {Looked(answer, look) :
                      answer \in CallToolAnswers(RpcResult(base, request.id),
                                                 OuterCatch(base, request.id, "thrown"),
                                                 request.params.name,
                                                 request.params.arguments, look.result)}
         [] OTHER ->
              {Answered(RpcError(base, 200, request.id, -32601, "method_not_found"))}

\* POST /v1/sse: the Authorization header is checked before the body is read
V1SseAnswers(request, bearer, keys) ==
    LET base == RpcRequest("POST /v1/sse", request, NoSessionId, bearer)
        failed == RpcError(base, 200, request.id, -32603, "thrown")
    IN IF bearer = Undefined
       THEN {Answered(RpcError(base, 401, IdOrNull(request.id), -32001,
                               "authentication_required"))}
       ELSE UNION {
         IF ~authInfo.ok
         THEN {Answered(RpcError(base, 500, IdOrNull(request.id), -32603, "internal_error"))}
         ELSE CASE request.method = "initialize" -> {Answered(RpcResult(base, request.id))}
                [] request.method = "tools/list" ->
                     {Answered([RpcResult(base, request.id) EXCEPT
                                  !.tools = {tool \in GetToolDefinitions :
                                                tool # AuthenticateTool}])}
                [] request.method = "tools/call" ->
                     UNION {
                       LET sessionId == SessionKey(KeyUserPart(authInfo.userId), n)
                           res == AuthenticateStore(isValid, clients, sessions, sessionId,
                                                    Handle(nextHid, bearer, sessionId), clock)
                       IN IF res.result = NoHandle \/ request.params.name = AuthenticateTool
                          THEN {Created([failed EXCEPT !.calls = 1], res, sessionId, keys)}
                          ELSE {Created(answer, res, sessionId, keys) :
                                  answer \in CallToolAnswers(
                                      [RpcResult(base, request.id) EXCEPT !.calls = 1],
                                      [failed EXCEPT !.calls = 1],
                                      request.params.name,
                                      ArgumentsOrEmpty(request.params.arguments),
                                      res.result)}
                       : isValid \in ValidateSession(Handle(nextHid, bearer, NoSessionId)),
                         n \in keys}
                [] OTHER ->
                     {Answered(RpcError(base, 200, request.id, -32601, "method_not_found"))}
         : authInfo \in VerifyAccessToken(bearer)}

\* handleToolCall of the stdio server, for a tool other than authenticate
StdioToolAnswers(base, request) ==
    LET failed == RpcError(base, 0, request.id, -32603, "thrown")
    IN IF stdioCurrent = NoHandle
       THEN {RpcError(base, 0, request.id, -32603, "not_authenticated")}
       ELSE IF request.params.name \notin {"list_user_stories", "get_user_story"}
       THEN {failed}
       ELSE IF ~request.params.arguments.defined
       THEN {failed}
       ELSE {IF outcome = "ok" THEN [RpcResult(base, request.id) EXCEPT
                                       !.status = 0, !.calls = 1]
                               ELSE [failed EXCEPT !.calls = 1] :
                outcome \in UpstreamOutcomes(stdioCurrent)}

\* handleMessage of the stdio server, for one line of input
StdioAnswers(wellFormed, request, keys) ==
    LET base == RpcRequest("stdio", request, NoSessionId, Undefined)
    IN IF ~wellFormed
       THEN {Answered(RpcError(base, 0, IdNull, -32700, "parse_error"))}
       ELSE CASE request.method = "initialize" ->
                   {Answered([RpcResult(base, request.id) EXCEPT !.status = 0])}
              [] request.method = "tools/list" ->
                   {Answered([RpcResult(base, request.id) EXCEPT
                                !.status = 0, !.tools = StdioTools])}
              [] request.method = "auth/login" ->
                   UNION {AuthenticateAnswers(base, request, 0, Uuid(n), keys) : n \in keys}
              [] request.method = "tools/call" ->
                   IF ~request.params.defined
                   THEN {Answered(RpcError(base, 0, request.id, -32603, "type_error"))}
                   ELSE IF request.params.name = AuthenticateTool
                   THEN UNION {AuthenticateAnswers(base, request, 0, Uuid(n), keys) :
                                  n \in keys}
                   ELSE {Answered(answer) : answer \in StdioToolAnswers(base, request)}
              [] OTHER ->
                   {Answered(RpcError(base, 0, request.id, -32601, "method_not_found"))}

\* a handler's step: the response is written and the registry updated (the
\* handles constructed and the keys drawn stay within the model's bounds)
Handled(done) ==
    /\ nextHid + done.handles <= MaxRpcHandles + 1
    /\ rpc' = done.rpc
    /\ clients' = done.clients
    /\ sessions' = done.sessions
    /\ nextHid' = nextHid + done.handles
    /\ drawn' = drawn \cup done.drawn
    /\ bound' = bound \cup done.bound

RpcMcp(request, header) ==
    /\ \E done \in McpAnswers(request, header) : Handled(done)
    /\ UNCHANGED <<inflight, destroyed, connections, event, stdioCurrent>>
    /\ UNCHANGED <<oauthVars, upstreamVars, libVars, timeVars>>

RpcSse(request, header) ==
    /\ \E done \in SseAnswers(request, header) :
         /\ Handled(done)
         /\ establishedBy' = IF done.handle # NoHandle
                             THEN establishedBy \cup {<<done.handle.hid, header>>}
                             ELSE establishedBy
    /\ UNCHANGED <<inflight, destroyed, connections, event, stdioCurrent>>
    /\ UNCHANGED <<oauthVars, upstreamVars, timeVars, validated, tokenRequests,
                   tempTokens, revalidation, stdio, streams, checked, fetched>>

RpcV1Sse(request, bearer) ==
    /\ \E done \in V1SseAnswers(request, bearer, FreshKey) : Handled(done)
    /\ UNCHANGED <<inflight, destroyed, connections, event, stdioCurrent>>
    /\ UNCHANGED <<oauthVars, upstreamVars, libVars, timeVars>>

RpcStdio(line) ==
    /\ \E done \in StdioAnswers(line.wellFormed, line.request, FreshKey) :
         /\ Handled(done)
         /\ stdioCurrent' = IF done.handle # NoHandle THEN done.handle
                            ELSE stdioCurrent
    /\ UNCHANGED <<inflight, destroyed, connections, event>>
    /\ UNCHANGED <<oauthVars, upstreamVars, libVars, timeVars>>

\* TRUE when handleMessage reaches a request to the upstream for this line
\* (axios.post of handleAuthLogin, client.getUserStories / getUserStory of
\* handleToolCall): its promise settles in a later turn of the event loop
StdioAwaits(line) ==
    /\ line.wellFormed
    /\ line.request.params.defined
    /\ \/ /\ line.request.method = "auth/login"
          /\ HasCredentials(line.request.params.arguments)
       \/ /\ line.request.method = "tools/call"
          /\ line.request.params.name = AuthenticateTool
          /\ HasCredentials(line.request.params.arguments)
       \/ /\ line.request.method = "tools/call"
          /\ line.request.params.name \in {"list_user_stories", "get_user_story"}
          /\ line.request.params.arguments.defined
          /\ stdioCurrent # NoHandle

\* sendResponse: the line written to stdout, for the request read as seq
StdioWritten(seq, answer) == [seq |-> seq, id |-> answer.id, body |-> answer.body]

\* process.stdin.on('data'): handleMessage(line) is called and not awaited. A
\* handler that needs no upstream request writes its response before the
\* next I/O event; one that does is left awaiting with the handle it took
\* from this.sessions.get('current')
StdioRead(line) ==
    /\ stdio.read < MaxStdioLines
    /\ IF StdioAwaits(line)
       THEN /\ stdio' = [stdio EXCEPT
                           !.read = @ + 1,
                           !.awaiting = @ \cup {[seq |-> stdio.read + 1,
                                                 request |-> line.request,
                                                 client |-> stdioCurrent]}]
            /\ UNCHANGED <<rpc, clients, sessions, nextHid, drawn, bound>>
       ELSE \E done \in StdioAnswers(line.wellFormed, line.request, FreshKey) :
              /\ Handled(done)
              /\ stdio' = [stdio EXCEPT
                             !.read = @ + 1,
                             !.stdout = Append(@, StdioWritten(stdio.read + 1, done.rpc))]
    /\ UNCHANGED <<inflight, destroyed, connections, event, stdioCurrent>>
    /\ UNCHANGED <<oauthVars, upstreamVars, timeVars, validated, tokenRequests,
                   tempTokens, revalidation, streams, checked, fetched, establishedBy>>

\* the upstream request of an awaiting handler settles: handleAuthLogin goes
\* on to authenticateWithToken and this.sessions.set('current', ...),
\* handleToolCall answers with the result or the error; sendResponse follows
StdioSettled ==
    /\ \E p \in stdio.awaiting :
         LET base == RpcRequest("stdio", p.request, NoSessionId, Undefined)
             failed == RpcError(base, 0, p.request.id, -32603, "thrown")
             answers ==
                 IF p.request.method = "auth/login"
                    \/ p.request.params.name = AuthenticateTool
                 THEN UNION {AuthenticateAnswers(base, p.request, 0, Uuid(n), FreshKey) :
                               n \in FreshKey}
                 ELSE {Answered(IF outcome = "ok"
                                THEN [RpcResult(base, p.request.id) EXCEPT
                                        !.status = 0, !.calls = 1]
                                ELSE [failed EXCEPT !.calls = 1]) :
                         outcome \in UpstreamOutcomes(p.client)}
         IN \E done \in answers :
              /\ Handled(done)
              /\ stdioCurrent' = IF done.handle # NoHandle THEN done.handle
                                 ELSE stdioCurrent
              /\ stdio' = [stdio EXCEPT
                             !.awaiting = @ \ {p},
                             !.stdout = Append(@, StdioWritten(p.seq, done.rpc))]
    /\ UNCHANGED <<inflight, destroyed, connections, event>>
    /\ UNCHANGED <<oauthVars, upstreamVars, timeVars, validated, tokenRequests,
                   tempTokens, revalidation, streams, checked, fetched, establishedBy>>

----------------------------------------------------------------------------
\* GET /mcp/execute/:toolName (src/unnamed/part_000): the event stream

\* sendEvent: res.write of the event's two lines
SendEvent(res, name) == [res EXCEPT !.events = Append(@, name)]

\* A faulty sendComplete that writes the event and leaves the stream open
SendCompleteKeepsOpen(res) == [SendEvent(res, "complete") EXCEPT !.phase = "done"]

\* sendComplete: the complete event, then res.end()
SendComplete(res) ==
    [SendEvent(res, "complete") EXCEPT !.phase = "done", !.ended = TRUE]

\* sendError(...); sendComplete(); return
SendErrorComplete(res) == SendComplete(SendEvent(res, "error"))

\* executeToolWithProgress before its upstream request: TRUE when the tool's
\* case finds the query parameters it requires (the default case throws)
ExecParamsOk(toolName, query) ==
    CASE toolName = "get_project_overview" -> "project_id" \in query
      [] toolName = "get_single_story_details" -> {"project_id", "persona_id"} \subseteq query
      [] toolName = "get_user_info" -> TRUE
      [] OTHER -> FALSE

ExecTools == {"get_project_overview", "get_user_info", "authenticate", "no_such_tool"}
ExecQueries == {{}, {"project_id"}}
ExecHeaders == {NoSessionId, McpDefault}

\* the handler up to its first request to the upstream: the headers are
\* written, the tool is looked for, the registry is asked for the client, and
\* client.validateSession() is awaited
GetExecute(c, toolName, header, query) ==
    /\ streams[c].phase = "none"
    /\ LET res == [NoStream EXCEPT !.toolName = toolName, !.query = query,
                                   !.sessionId = header]
           look == GetClient(clients, sessions, header, clock)
       IN IF toolName \notin ToolCatalog
          THEN /\ streams' = [streams EXCEPT ![c] = SendErrorComplete(res)]
               /\ UNCHANGED sessions
          ELSE /\ sessions' = look.sessions
               /\ IF look.result = NoHandle
                  THEN streams' = [streams EXCEPT
                           ![c] = SendErrorComplete(SendEvent(res, "progress"))]
                  ELSE streams' = [streams EXCEPT
                           ![c] = [SendEvent(SendEvent(res, "progress"), "progress")
                                     EXCEPT !.phase = "validating",
                                            !.client = look.result]]
    /\ UNCHANGED <<clients, inflight, nextHid, drawn, bound, destroyed, connections, event>>
    /\ UNCHANGED <<oauthVars, upstreamVars, timeVars, rpcVars, validated, tokenRequests,
                   tempTokens, revalidation, stdio, checked, fetched, establishedBy>>

\* validateSession has answered: the session is cleared and the stream ends
\* with an error, or the tool's execution starts and awaits the upstream
ExecValidated(c) ==
    /\ streams[c].phase = "validating"
    /\ \E isValid \in ValidateSession(streams[c].client) :
         IF ~isValid
         THEN LET res == ClearSession(clients, sessions, streams[c].sessionId)
              IN /\ clients' = res.clients
                 /\ sessions' = res.sessions
                 /\ destroyed' = destroyed \cup ((DOMAIN clients) \ DOMAIN res.clients)
                 /\ streams' = [streams EXCEPT ![c] = SendErrorComplete(@)]
         ELSE /\ UNCHANGED <<clients, sessions, destroyed>>
              /\ IF ExecParamsOk(streams[c].toolName, streams[c].query)
                 THEN streams' = [streams EXCEPT
                          ![c] = [SendEvent(SendEvent(@, "progress"), "progress")
                                    EXCEPT !.phase = "executing"]]
                 ELSE streams' = [streams EXCEPT
                          ![c] = SendErrorComplete(SendEvent(@, "progress"))]
    /\ UNCHANGED <<inflight, nextHid, drawn, bound, connections, event>>
    /\ UNCHANGED <<oauthVars, upstreamVars, timeVars, rpcVars, validated, tokenRequests,
                   tempTokens, revalidation, stdio, checked, fetched, establishedBy>>

\* the tool's request to the upstream has settled: sendResult or, from the
\* catch, sendError; then sendComplete
ExecSettled(c) ==
    /\ streams[c].phase = "executing"
    /\ \E outcome \in UpstreamOutcomes(streams[c].client) :
         streams' = [streams EXCEPT
             ![c] = SendComplete(SendEvent(@, IF outcome = "ok" THEN "result"
                                                               ELSE "error"))]
    /\ UNCHANGED <<oauthVars, upstreamVars, regVars, timeVars, rpcVars, validated,
                   tokenRequests, tempTokens, revalidation, stdio, checked, fetched, establishedBy>>

\* the client closes the connection while the handler awaits: the handler is
\* not told (req.on('close') is registered after the try block has run, and
\* only logs)
ExecClose(c) ==
    /\ streams[c].phase \in {"validating", "executing"}
    /\ ~streams[c].closed
    /\ streams' = [streams EXCEPT ![c].closed = TRUE,
                                  ![c].atClose = Len(streams[c].events)]
    /\ UNCHANGED <<oauthVars, upstreamVars, regVars, timeVars, rpcVars, validated,
                   tokenRequests, tempTokens, revalidation, stdio, checked, fetched, establishedBy>>

\* The stdio server's stream: lines arrive, handlers settle
NextStdio ==
    \/ \E line \in StdioLines : StdioRead(line)
    \/ StdioSettled

SpecStdio ==
    /\ Init({FALSE}, {NoValidation}, {NoCheck}, {NoOperation})
    /\ [][NextStdio]_vars

NextDispatch ==
    \/ \E request \in HttpRequests, header \in RpcHeaders :
         RpcMcp(request, header)
    \/ \E request \in HttpRequests, header \in RpcHeaders \ {McpDefault} :
         RpcSse(request, header)
    \/ \E request \in HttpRequests, bearer \in RpcBearers :
         RpcV1Sse(request, bearer)
    \/ \E line \in StdioLines : RpcStdio(line)

\* the tools/call of the authenticate tool, with credentials
AuthenticateCall ==
    [id |-> IdNumber(0), method |-> "tools/call",
     params |-> Params([name |-> AuthenticateTool,
                        arguments |-> ArgsObject(CredentialArgs)])]

\* One session under the clock: the authenticate tool of POST /sse creates
\* it, GET /auth/session/:sessionId looks it up, time passes and the sweep runs
NextSliding ==
    \/ \E header \in {NoSessionId} : RpcSse(AuthenticateCall, header)
    \/ \E sessionId \in {McpDefault, Uuid(1)} : GetAuthSession(sessionId)
    \/ Advance
    \/ Sweep

SpecSliding ==
    /\ Init({FALSE}, {NoValidation}, {NoCheck}, {NoOperation})
    /\ [][NextSliding]_vars

\* The sweep among its neighbours: the session 'mcp-default' created by the
\* authenticate tool of POST /sse, one under a uuid created by POST
\* /auth/token, a temp token stored by GET /auth/callback, and the clock
NextCleanup ==
    \/ \E header \in {NoSessionId} : RpcSse(AuthenticateCall, header)
    \/ \E bearerToken \in {TokenOf(user) : user \in RpcUsers} : PostAuthToken(bearerToken)
    \/ AuthDone
    \/ \E access_token \in RpcBearers : GetAuthCallback(access_token)
    \/ Advance
    \/ Sweep

SpecCleanup ==
    /\ Init({FALSE}, {NoValidation}, {NoCheck}, {NoOperation})
    /\ [][NextCleanup]_vars

\* The stdio server under the clock: a login stores the session in the
\* registry and the handle in this.sessions, tool calls follow, time passes
\* and the registry's sweep runs
NextOwnership ==
    \/ \E line \in StdioLines : RpcStdio(line)
    \/ Advance
    \/ Sweep

SpecOwnership ==
    /\ Init({FALSE}, {NoValidation}, {NoCheck}, {NoOperation})
    /\ [][NextOwnership]_vars

\* Event streams of tool executions, over the session 'mcp-default' created
\* by the authenticate tool of POST /sse
NextExecute ==
    \/ \E header \in {NoSessionId} : RpcSse(AuthenticateCall, header)
    \/ \E c \in StreamIds, toolName \in ExecTools, header \in ExecHeaders,
          query \in ExecQueries : GetExecute(c, toolName, header, query)
    \/ \E c \in StreamIds : ExecValidated(c)
    \/ \E c \in StreamIds : ExecSettled(c)
    \/ \E c \in StreamIds : ExecClose(c)

SpecExecute ==
    /\ Init({FALSE}, {NoValidation}, {NoCheck}, {NoOperation})
    /\ [][NextExecute]_vars

\* getSessionCount
GetSessionCount(ss) == Cardinality(DOMAIN ss)

\* cleanup, the shutdown method: the three maps are cleared
Cleanup ==
    /\ clients' = [x \in {} |-> NoHandle]
    /\ sessions' = [x \in {} |-> 0]
    /\ tempTokens' = [x \in {} |-> [token |-> Undefined, createdAt |-> 0]]
    /\ destroyed' = destroyed \cup DOMAIN clients
    /\ event' = [NoEvent EXCEPT !.op = "cleanup"]
    /\ UNCHANGED <<inflight, nextHid, drawn, bound, connections>>
    /\ UNCHANGED <<oauthVars, upstreamVars, timeVars, rpcVars, validated, tokenRequests,
                   revalidation, stdio, streams, checked, fetched, establishedBy>>

\* Every operation of the AuthManager on its two session maps, interleaved:
\* authenticateWithToken (the authenticate tool of POST /sse), getClient,
\* clearSession, the sweep under the clock, validateAllSessions and cleanup
NextMaps ==
    \/ \E header \in {NoSessionId} : RpcSse(AuthenticateCall, header)
    \/ \E sessionId \in {McpDefault, Uuid(1)} : GetAuthSession(sessionId)
    \/ \E header \in {McpDefault, Uuid(1)} : DeleteAuthSession(header)
    \/ ValidateAllStart
    \/ ValidateAllResume
    \/ Advance
    \/ Sweep
    \/ Cleanup

SpecMaps ==
    /\ Init({FALSE}, {NoValidation}, {NoCheck}, {NoOperation})
    /\ [][NextMaps]_vars

\* POST /sse alone, with and without the X-Session-ID header
NextIsolation ==
    \E request \in HttpRequests, header \in RpcHeaders \ {McpDefault} :
        RpcSse(request, header)

SpecIsolation ==
    /\ Init({FALSE}, {NoValidation}, {NoCheck}, {NoOperation})
    /\ [][NextIsolation]_vars

\* POST /v1/sse tools/call between two sweeps: each call authenticates, calls
\* its tool and answers
NextLeak ==
    \/ \E bearer \in RpcBearers, call \in ToolCalls : PostV1Sse(bearer, call)
    \/ BearerAuthDone
    \/ CallDone

SpecLeak ==
    /\ Init({FALSE}, {NoValidation}, {NoCheck}, {NoOperation})
    /\ [][NextLeak]_vars

SpecDispatch ==
    /\ Init({FALSE}, {NoValidation}, {NoCheck}, {NoOperation})
    /\ [][NextDispatch]_vars

----------------------------------------------------------------------------
\* The OAuth server's authorization-code exchange
NextOAuth ==
    \/ GetAuthorizeReq
    \/ PostAuthenticateReq
    \/ PostTokenReq
    \/ Tick
    \/ RevokeToken

SpecOAuth ==
    /\ Init(BOOLEAN, {NoValidation}, {NoCheck}, {NoOperation})
    /\ [][NextOAuth]_vars

\* The life of an authorization code alone: minted by POST /authenticate,
\* redeemed by POST /token, deleted by its timer; the upstream keeps accepting
\* the tokens it issued
NextCodes ==
    \/ PostAuthenticateReq
    \/ PostTokenReq
    \/ Tick

SpecCodes ==
    /\ Init(BOOLEAN, {NoValidation}, {NoCheck}, {NoOperation})
    /\ [][NextCodes]_vars

\* Codes are minted and expire while POST /token requests of any shape,
\* well-formed or not, are answered
NextExchange ==
    \/ PostAuthenticateReq
    \/ PostTokenAnyClient
    \/ Tick

SpecExchange ==
    /\ Init(BOOLEAN, {NoValidation}, {NoCheck}, {NoOperation})
    /\ [][NextExchange]_vars

\* The login flow alone: GET /authorize, POST /authenticate, GET /callback and
\* the timers of the store
NextLogin ==
    \/ GetAuthorizeReq
    \/ PostAuthenticateReq
    \/ GetCallbackReq
    \/ Tick

SpecLogin ==
    /\ Init(BOOLEAN, {NoValidation}, {NoCheck}, {NoOperation})
    /\ [][NextLogin]_vars

\* Concurrent redemptions: codes are minted, POST /token requests for them
\* arrive and are handled in any order, and the codes' timers run
NextRedeem ==
    \/ PostAuthenticateReq
    \/ TokenRequestArrives
    \/ TokenRequestHandled
    \/ Tick

SpecRedeem ==
    /\ Init({FALSE}, {NoValidation}, {NoCheck}, {NoOperation})
    /\ [][NextRedeem]_vars

----------------------------------------------------------------------------
\* Claims about the authorization-code exchange (checked under SpecOAuth)

\* resp answers a POST /token with grant_type=authorization_code that was
\* looked up in sessionStore (not handed to Auth0)
IsCodeRedemption ==
    /\ resp.route = "/token"
    /\ resp.grant = "authorization_code"
    /\ resp.code \in DOMAIN issued
    /\ ~(auth0Provider /\ resp.client = AUTH0_CLIENT_ID)

\* C1: redeem-once.  For a code minted by a successful POST /authenticate and
\* still in the store, the first POST /token with that code answers 200 with
\* the stored bearer credential, and every POST /token with that code after a
\* successful redemption fails with invalid_grant.
C1_RedeemOnce ==
    IsCodeRedemption =>
        /\ resp.pending =>
              (resp.status = 200 /\ resp.access_token = issued[resp.code])
        /\ (~resp.pending /\ resp.code \in redeemed) =>
              (resp.status = 400 /\ resp.error = "invalid_grant")

\* C2: end-to-end exchange.  A successful POST /authenticate with
\* state="mcp-auth" and no session key answers with the success page carrying
\* the code it minted, and a POST /token for that code made while the code is
\* pending and its credential still valid returns access_token equal to the
\* credential obtained by that /authenticate call.
C2_EndToEndExchange ==
    /\ (resp.route = "/authenticate" /\ resp.code # NoCode
          /\ resp.req_state = McpAuth /\ resp.req_session = Undefined) =>
            /\ resp.kind = "success_page"
            /\ MapHas(sessionStore, AuthCodeKey(resp.code))
            /\ issued[resp.code] = resp.stored
    /\ (IsCodeRedemption /\ resp.pending /\ resp.storedValid) =>
            /\ resp.kind = "token"
            /\ resp.access_token = issued[resp.code]

\* C3: redemption re-validates.  A POST /token for a pending code whose stored
\* credential the upstream no longer accepts fails with invalid_grant and
\* does not return that credential.
C3_RedemptionRevalidates ==
    (IsCodeRedemption /\ resp.pending /\ ~resp.storedValid) =>
        /\ resp.status = 400
        /\ resp.error = "invalid_grant"
        /\ resp.access_token # resp.stored

\* C4: once a sessionId's session has been destroyed, no later lookup of that
\* sessionId returns a handle.
C4_NoResurrection ==
    (event.looked /\ event.wasDestroyed) => ~event.found

\* C5: tools/call requests in flight for different registered sessions each
\* work on the handle registered under their own sessionId, and never on the
\* same handle.
C5_SessionIsolation ==
    /\ \A r \in inflight : r.kind = "call" => r.handle.sid = r.sid
    /\ \A r1, r2 \in inflight :
         (r1.kind = "call" /\ r2.kind = "call" /\ r1.sid # r2.sid) =>
            r1.handle # r2.handle
    /\ (event.op = "call" /\ event.handle # NoHandle) => event.handle.sid = event.sid

\* C5's case: two tools/call requests in flight at once, for two different
\* sessions that are both registered
C5_Witness ==
    \E r1, r2 \in inflight :
        /\ r1.kind = "call" /\ r2.kind = "call" /\ r1.sid # r2.sid
        /\ MapHas(clients, r1.sid) /\ MapHas(clients, r2.sid)

\* C6: when validateSession fails, authenticateWithToken reports failure and
\* leaves clients and sessions exactly as they were.
C6_FailedCreationStoresNothing ==
    [][\A r \in inflight :
         (r.kind = "auth" /\ r \notin inflight' /\ ~event'.valid) =>
            /\ clients' = clients
            /\ sessions' = sessions
            /\ event'.outcome = "error"
            /\ event'.handle = NoHandle]_vars

\* C6's case: a creation whose validateSession failed has completed while
\* the registry held another session
C6_Witness ==
    /\ event.op = "create" /\ event.sid # NoSessionId
    /\ ~event.valid /\ event.outcome = "error"
    /\ DOMAIN clients # {}

\* C7: getClient returns absent for a sessionId whose session is older than
\* the session TTL at the time of the lookup, swept or not.
C7_ExpiredDoNotResolve ==
    (event.looked /\ event.expired) => ~event.found

\* C8: every successful session creation binds a sessionId that no earlier
\* creation was bound to.
C8_FreshSessionIds ==
    event.stored => ~event.rebound

\* C9: the session key derived for a bearer-authenticated request contains the
\* user id verified for the presented token.
C9_SessionKeyHasUserId ==
    (event.route \in BearerRoutes /\ event.verified # Undefined) =>
        event.keyUser = event.verified

\* C10: a tools/call that omits the project_id its tool requires fails without
\* any upstream call having been made for the request.
OmitsProjectId(name, arguments) ==
    /\ name \in ToolCatalog
    /\ "project_id" \in Schema(name).required
    /\ (~arguments.defined \/ "project_id" \notin DOMAIN arguments.fields)
C10_ValidationPrecedesInvocation ==
    (event.op = "call" /\ OmitsProjectId(event.name, event.arguments)) =>
        (event.outcome = "error" /\ event.calls = 0)

----------------------------------------------------------------------------
\* Claims about the JSON-RPC entry points (checked under SpecDispatch)

\* C11: a tools/list sent with no session header is answered with every tool
\* of the catalog except the authenticate tool, so the number of tools
\* returned is the catalog's size minus one.
C11_ToolsListOmitsAuthenticate ==
    (/\ rpc.entry \in {"POST /mcp", "POST /sse", "POST /v1/sse"}
     /\ rpc.method = "tools/list"
     /\ rpc.session = NoSessionId
     /\ rpc.body = "result") =>
        /\ rpc.tools = ToolCatalog \ {AuthenticateTool}
        /\ Cardinality(rpc.tools) = Cardinality(ToolCatalog) - 1

\* rpc answers a tools/call for a tool other than authenticate that carried an
\* X-Session-ID no session was ever registered under
UnregisteredSessionCall(exchange) ==
    /\ exchange.entry \in {"POST /mcp", "POST /sse"}
    /\ exchange.method = "tools/call"
    /\ exchange.params.defined
    /\ exchange.params.name # AuthenticateTool
    /\ exchange.session # NoSessionId
    /\ ~exchange.registered

\* C12: a tools/call for a non-authentication tool carrying an X-Session-ID
\* that was never registered is answered with a JSON-RPC error of code -32603
\* and an authentication-required message; the handler makes no upstream call
\* and leaves the registry without a new session.
C12_UnregisteredSessionRejected ==
    [][UnregisteredSessionCall(rpc') =>
          /\ rpc'.sent = 1
          /\ rpc'.body = "error"
          /\ rpc'.code = -32603
          /\ rpc'.message = "not_authenticated"
          /\ rpc'.calls = 0
          /\ clients' = clients
          /\ sessions' = sessions
          /\ nextHid' = nextHid]_vars

\* C12's case: such a call was rejected while another session was registered
C12_Witness ==
    /\ UnregisteredSessionCall(rpc)
    /\ rpc.body = "error"
    /\ rpc.session \notin DOMAIN clients
    /\ DOMAIN clients # {}

----------------------------------------------------------------------------
\* Claims about the life of an authorization code (checked under SpecCodes;
\* they hold under SpecOAuth as well)

\* C13: code expiry boundary.  With the ephemeral TTL at SESSION_TIMEOUT
\* (300 s), a POST /token for a code minted at t0 and not yet redeemed
\* succeeds up to t0 + 299 s, and from t0 + 301 s on it is rejected with
\* invalid_grant.
C13_CodeExpiryBoundary ==
    [][(/\ PostTokenReq
        /\ resp'.grant = "authorization_code"
        /\ resp'.code \in DOMAIN mintedAt
        /\ ~(auth0Provider /\ resp'.client = AUTH0_CLIENT_ID)) =>
          /\ (/\ now - mintedAt[resp'.code] <= SESSION_TIMEOUT - 1
              /\ resp'.code \notin redeemed) => resp'.status = 200
          /\ now - mintedAt[resp'.code] >= SESSION_TIMEOUT + 1 =>
                (resp'.status = 400 /\ resp'.error = "invalid_grant")]_vars

\* C13's case: a code was redeemed 299 s after it was minted
C13_Witness ==
    /\ IsCodeRedemption
    /\ resp.status = 200
    /\ resp.code \in redeemed
    /\ now - mintedAt[resp.code] = SESSION_TIMEOUT - 1

\* a code that was never redeemed was refused 301 s after it was minted
C13_RejectedAfterTtl ==
    /\ IsCodeRedemption
    /\ resp.error = "invalid_grant"
    /\ resp.code \notin redeemed
    /\ now - mintedAt[resp.code] = SESSION_TIMEOUT + 1

\* C14: a POST /token whose grant_type is not authorization_code fails with
\* unsupported_grant_type whatever its code is (pending, expired, already
\* redeemed, unknown or missing), and consumes nothing.
C14_UnsupportedGrantType ==
    [][(PostTokenReq /\ resp'.grant # "authorization_code") =>
          /\ resp'.status = 400
          /\ resp'.error = "unsupported_grant_type"
          /\ resp'.access_token = Undefined
          /\ sessionStore' = sessionStore
          /\ redeemed' = redeemed]_vars

\* C14's case: the request named a code that was pending in the store
C14_Witness ==
    /\ resp.route = "/token"
    /\ resp.grant = "client_credentials"
    /\ resp.pending
    /\ resp.error = "unsupported_grant_type"
    /\ MapHas(sessionStore, AuthCodeKey(resp.code))

\* C15: when the credential verifier rejects or cannot verify the submitted
\* email/password, POST /authenticate answers with the login form carrying the
\* error, never with a redirect, and no authorization code is stored.
C15_FailedLoginRendersForm ==
    [][\A user \in Users, passwordOk \in BOOLEAN, state \in States, redirect \in Redirects :
          (/\ CredentialOutcomes(user, passwordOk) = {Undefined}
           /\ PostAuthenticate(user, passwordOk, state, redirect)) =>
              /\ resp'.kind = "form_error"
              /\ resp'.status # 302
              /\ resp'.code = NoCode
              /\ sessionStore' = sessionStore
              /\ timers' = timers
              /\ issued' = issued]_vars

\* C15's case: a login was refused while an earlier code was in the store
C15_Witness ==
    /\ resp.route = "/authenticate"
    /\ resp.kind = "form_error"
    /\ \E c \in Codes : MapHas(sessionStore, AuthCodeKey(c))

\* The sessionStore never holds a CallbackSession (an `auth_session:` entry):
\* the one statement that stores them is in the GET /authorize handler that
\* never runs.  So no POST /authenticate finds one to redirect through.
CallbackSessionsNeverStored ==
    /\ \A k \in DOMAIN sessionStore : k[1] # "auth_session"
    /\ (resp.route = "/authenticate" /\ resp.code # NoCode /\ resp.req_state = McpAuth) =>
          resp.kind = "success_page"

----------------------------------------------------------------------------
\* Claims about clearing sessions (checked under SpecSessions; they hold under
\* SpecRegistry as well)

\* the registry entries of the sessions other than sessionId are the same in
\* (cl2, ss2) as in (cl1, ss1)
OthersUnchanged(cl1, ss1, cl2, ss2, sessionId) ==
    /\ (DOMAIN cl2) \ {sessionId} = (DOMAIN cl1) \ {sessionId}
    /\ (DOMAIN ss2) \ {sessionId} = (DOMAIN ss1) \ {sessionId}
    /\ \A other \in (DOMAIN cl1) \ {sessionId} : cl2[other] = cl1[other]
    /\ \A other \in (DOMAIN ss1) \ {sessionId} : ss2[other] = ss1[other]

\* C17: clearSession is idempotent.  Calling it twice on a sessionId leaves
\* the registry as calling it once does, the second call raises no error
\* (DELETE /auth/session for a session already cleared answers 200 and changes
\* nothing), and the sessions other than that sessionId are unchanged by
\* either call.
C17_ClearSessionIdempotent ==
    [][event'.op = "destroy" =>
         /\ \A sessionId \in SessionHeaders \ {NoSessionId} :
              LET once == ClearSession(clients, sessions, sessionId)
                  twice == ClearSession(once.clients, once.sessions, sessionId)
              IN /\ twice = once
                 /\ ~MapHas(once.clients, sessionId) /\ ~MapHas(once.sessions, sessionId)
                 /\ OthersUnchanged(clients, sessions, once.clients, once.sessions,
                                    sessionId)
         /\ \A header \in SessionHeaders \ {NoSessionId} :
              DeleteAuthSession(header) =>
                 /\ event'.status = 200
                 /\ ~MapHas(clients', header) /\ ~MapHas(sessions', header)
                 /\ OthersUnchanged(clients, sessions, clients', sessions', header)
                 /\ ~MapHas(clients, header) =>
                       (clients' = clients /\ sessions' = sessions)]_vars

\* C17's case: a DELETE /auth/session for a session that an earlier one had
\* already cleared was answered, while another session was registered
C17_Witness ==
    /\ event.op = "destroy"
    /\ event.wasDestroyed /\ ~event.found
    /\ event.status = 200
    /\ DOMAIN clients # {}

----------------------------------------------------------------------------
\* More claims about the JSON-RPC entry points (checked under SpecDispatch)

\* exactly one JSON-RPC response was written, holding a result or an error
\* with its code and message
OneJsonRpcResponse(exchange) ==
    /\ exchange.sent = 1
    /\ exchange.body \in {"result", "error"}
    /\ exchange.body = "error" => (exchange.code # 0 /\ exchange.message # "none")
    /\ exchange.body = "result" => exchange.code = 0

\* C18: the dispatcher never lets a failure escape.  Every JSON-RPC request,
\* whatever its method, params and session state, is answered with exactly one
\* JSON-RPC response holding a result or an error {code, message}: also when
\* params is missing, the tool is unknown, the arguments are invalid or the
\* upstream call fails.
C18_EveryRequestAnswered ==
    /\ rpc.entry # "none" => OneJsonRpcResponse(rpc)
    /\ FreeKeys # {} =>
         /\ \A request \in HttpRequests :
              /\ \A header \in RpcHeaders :
                   /\ McpAnswers(request, header) # {}
                   /\ SseAnswers(request, header) # {}
                   /\ \A done \in McpAnswers(request, header) \cup SseAnswers(request, header) :
                        OneJsonRpcResponse(done.rpc)
              /\ \A bearer \in RpcBearers :
                   /\ V1SseAnswers(request, bearer, FreshKey) # {}
                   /\ \A done \in V1SseAnswers(request, bearer, FreshKey) :
                        OneJsonRpcResponse(done.rpc)
         /\ \A line \in StdioLines :
              /\ StdioAnswers(line.wellFormed, line.request, FreshKey) # {}
              /\ \A done \in StdioAnswers(line.wellFormed, line.request, FreshKey) :
                   OneJsonRpcResponse(done.rpc)

\* C18's case: the upstream call of a tools/call failed, and the request was
\* answered with an error
C18_Witness ==
    /\ rpc.entry = "POST /mcp"
    /\ rpc.method = "tools/call"
    /\ rpc.calls = 1
    /\ rpc.sent = 1
    /\ rpc.body = "error"

\* C19: a JSON-RPC request whose method is not initialize, tools/list or
\* tools/call is answered with an error of code -32601, on every entry point
\* (POST /mcp, POST /sse, POST /v1/sse, stdio) and whether or not the request
\* carries a session id or a bearer token.
C19_UnknownMethodNotFound ==
    (/\ rpc.entry \in {"POST /mcp", "POST /sse", "POST /v1/sse", "stdio"}
     /\ rpc.method \notin {"none", "initialize", "tools/list", "tools/call"}) =>
        /\ rpc.body = "error"
        /\ rpc.code = -32601

\* C20: every JSON-RPC response carries the id of the request it answers, for
\* every id a client may send (the number 0 and strings included), on the
\* success paths and on every error path.
C20_ResponseEchoesId ==
    (/\ rpc.entry # "none"
     /\ rpc.reqId.t \in {"number", "string"}
     /\ rpc.sent >= 1) =>
        rpc.id = rpc.reqId

\* what a client observes of an exchange: the result (with the tools it
\* lists) or the error code
Observed(answers) ==
    {[body |-> done.rpc.body, code |-> done.rpc.code, tools |-> done.rpc.tools] :
        done \in answers}

\* C21: the dispatchers behind POST /sse and POST /mcp are observationally
\* equivalent: for the same JSON-RPC request (initialize, tools/list,
\* tools/call, the authenticate tool included) sent without a session header
\* to the same registry state, both return the same result or the same error
\* code.
C21_TransportAgnosticDispatch ==
    \A request \in HttpRequests :
        request.method \in {"initialize", "tools/list", "tools/call"} =>
            Observed(SseAnswers(request, NoSessionId))
                = Observed(McpAnswers(request, NoSessionId))

\* the field is present in the input (`f in input`)
Present(input, f) == input.defined /\ f \in DOMAIN input.fields

\* the present fields the schema declares
Declared(schema, input) ==
    {f \in DOMAIN schema.properties : Present(input, f)}

\* what the input has to satisfy: the required fields are there and not null,
\* the declared fields have their types and lie within their limits
MeetsSchema(schema, input) ==
    /\ \A f \in schema.required :
          Present(input, f) /\ input.fields[f].t \notin {"null", "undefined"}
    /\ \A f \in Declared(schema, input) :
          /\ schema.properties[f].type = "integer" => input.fields[f].isInt
          /\ schema.properties[f].type = "string" => input.fields[f].t = "string"
          /\ schema.properties[f].minimum # NoMinimum =>
                ~(input.fields[f].numeric
                  /\ input.fields[f].num < schema.properties[f].minimum)
          /\ schema.properties[f].maximum # NoMaximum =>
                ~(input.fields[f].numeric
                  /\ input.fields[f].num >= schema.properties[f].maximum
                  /\ ~(input.fields[f].isInt
                       /\ input.fields[f].num = schema.properties[f].maximum))

\* C22: validateToolInput(tool, input) returns true exactly when every
\* required field of the tool's schema is present and non-null in the input,
\* every present field declared integer is an integer, every present field
\* declared string is a string, and every present field is within its
\* declared minimum and maximum; otherwise it throws, and for a tool that is
\* not in the catalog it throws Unknown tool.
C22_ValidateToolInput ==
    validated.outcome \notin {"none", "pending"} =>
        /\ validated.outcome \in {"ok", "unknown_tool", "type_error", "validation_error"}
        /\ validated.toolName \notin ToolCatalog <=> validated.outcome = "unknown_tool"
        /\ validated.outcome = "ok" <=>
              /\ validated.toolName \in ToolCatalog
              /\ MeetsSchema(Schema(validated.toolName), validated.input)

\* C22's cases: an input that passes with an integer within its minimum, and
\* one rejected for a story number below the minimum although every required
\* field is there
C22_Witness ==
    /\ validated.toolName = "get_single_story_details"
    /\ validated.outcome = "ok"
    /\ Present(validated.input, "story_number")

C22_WitnessRejected ==
    /\ validated.toolName = "get_single_story_details"
    /\ validated.outcome = "validation_error"
    /\ validated.input = ArgsObject([f \in {"story_number", "project_id", "persona_id"} |->
                                        IF f = "story_number" THEN ArgInteger(0)
                                        ELSE ArgString])

\* two POST /token requests for the same code, looked up in sessionStore (not
\* handed to Auth0), that were in flight at the same time while the code was
\* pending, and that have both been answered
ConcurrentRedemptions(r1, r2) ==
    /\ r1.rid # r2.rid
    /\ r1.code = r2.code
    /\ r1.rid \in r2.overlaps
    /\ r1.pending /\ r2.pending
    /\ r1.phase = "answered" /\ r2.phase = "answered"
    /\ ~(auth0Provider /\ AUTH0_CLIENT_ID \in {r1.client_id, r2.client_id})

C24_AuthorizeCreatesCallbackSession ==
    resp.route = "/authorize" =>
        /\ resp.req_state = McpAuth =>
              /\ resp.kind = "login_form"
              /\ \A k \in DOMAIN sessionStore : k[1] # "auth_session"
        /\ resp.req_state # McpAuth =>
              /\ resp.kind = "redirect"
              /\ resp.status = 302
              /\ resp.state = McpAuth
              /\ \E k \in DOMAIN sessionStore : k[1] = "auth_session"

\* The login flow never redirects through a CallbackSession: no `auth_session:`
\* entry is ever in the store, so neither POST /authenticate (with
\* state="mcp-auth" and a session key) nor GET /callback (with a session key
\* and a code) finds one; both answer with a page instead.
CallbackSessionsNeverConsumed ==
    /\ \A k \in DOMAIN sessionStore : k[1] # "auth_session"
    /\ (resp.route = "/callback") => resp.kind = "complete_page"
    /\ (resp.route = "/authenticate" /\ resp.code # NoCode
           /\ resp.req_state = McpAuth /\ resp.req_session # Undefined) =>
          resp.kind = "success_page"

\* What the retry does in the flows the login form takes part in: after a
\* rejected POST /authenticate, one with valid credentials and the state and
\* redirect_uri of the re-rendered form answers with a fresh code that was not
\* in the store before; it is a redirect to the submitted redirect_uri with
\* the submitted state, or, for state="mcp-auth", the success page.
RetryAfterRejection ==
    [][(/\ resp.route = "/authenticate" /\ resp.kind = "form_error"
        /\ PostAuthenticateReq
        /\ resp'.code # NoCode
        /\ resp'.req_state = resp.state
        /\ \E redirect \in Redirects :
              redirect.uri = resp.location /\ redirect.session = resp'.req_session)
       => /\ DOMAIN sessionStore \subseteq DOMAIN sessionStore'
          /\ ~MapHas(sessionStore, AuthCodeKey(resp'.code))
          /\ MapHas(sessionStore', AuthCodeKey(resp'.code))
          /\ IF resp.state = McpAuth
             THEN resp'.kind = "success_page"
             ELSE /\ resp'.kind = "redirect"
                  /\ resp'.location = resp.location
                  /\ resp'.state = resp.state]_vars

----------------------------------------------------------------------------
\* Claims about the registry's expiry (checked under SpecSliding; they hold
\* under SpecExpiry as well)

\* C27: sliding expiry.  Every successful getClient(sessionId) sets that
\* session's createdAt to the current time, and a run of
\* cleanupExpiredSessions removes exactly the sessions whose createdAt is more
\* than the TTL in the past: a session looked up within the last TTL stays, a
\* session not looked up (nor created) for longer than the TTL goes.
C27_SlidingExpiry ==
    [][/\ \A sessionId \in SessionHeaders :
            (GetAuthSession(sessionId) /\ event'.found) =>
                /\ sessions'[sessionId] = clock
                /\ clients' = clients
       /\ Sweep =>
            \A sid \in DOMAIN sessions :
                IF clock - sessions[sid] > sessionTimeout
                THEN sid \notin DOMAIN sessions' /\ sid \notin DOMAIN clients'
                ELSE sid \in DOMAIN sessions' /\ sid \in DOMAIN clients']_vars

\* C27's case: a lookup found a session whose createdAt was more than the TTL
\* in the past and moved it to the current time
C27_Witness ==
    /\ event.op = "lookup"
    /\ event.found /\ event.expired
    /\ sessions[event.sid] = clock

\* the other case: a session nobody looked up for longer than the TTL was
\* removed by the sweep, the only handle ever constructed with it
C27_WitnessRemoved ==
    /\ event.op = "sweep"
    /\ nextHid = 2
    /\ \E sid \in destroyed : sid \notin DOMAIN sessions /\ sid \notin DOMAIN clients

\* C28: cleanupExpiredSessions removes from both registry maps every session
\* whose age (now - createdAt) exceeds the session TTL, and leaves every other
\* session (its handle and its createdAt) and every temp token unchanged.
C28_CleanupFrame ==
    [][Sweep =>
         /\ DOMAIN sessions' = (DOMAIN sessions) \ ExpiredSessions(sessions, clock)
         /\ DOMAIN clients' = (DOMAIN clients) \ ExpiredSessions(sessions, clock)
         /\ \A sid \in DOMAIN sessions' : sessions'[sid] = sessions[sid]
         /\ \A sid \in DOMAIN clients' : clients'[sid] = clients[sid]
         /\ tempTokens' = tempTokens]_vars

\* C28's case: a sweep removed one session and left another one and a temp
\* token in place
C28_Witness ==
    /\ event.op = "sweep"
    /\ \E sid \in destroyed : sid \notin DOMAIN sessions /\ sid \notin DOMAIN clients
    /\ DOMAIN clients # {}
    /\ DOMAIN tempTokens # {}

----------------------------------------------------------------------------
\* Claims about the administrative revalidation (checked under SpecRevalidate)

\* the sessionIds reported so far by the running validateAllSessions
Reported == {revalidation.results[i].sessionId : i \in 1..Len(revalidation.results)}

\* C29: validateAllSessions returns exactly one result per session that was
\* live when it started; a session whose handle fails validation is removed
\* from the registry and reported valid:false, a session whose handle
\* validates is kept unchanged and reported valid:true, and no other session
\* is touched by the loop.
C29_ValidateAllSessions ==
    /\ [](/\ revalidation.phase = "awaiting" =>
               /\ Reported \cup {revalidation.current.sid}
                    \cup {e.sid : e \in revalidation.todo} = revalidation.live
               /\ Len(revalidation.results) + 1 + Cardinality(revalidation.todo)
                    = Cardinality(revalidation.live)
          /\ revalidation.phase = "returned" =>
               /\ Reported = revalidation.live
               /\ Len(revalidation.results) = Cardinality(revalidation.live))
    /\ [][ValidateAllResume =>
            LET cur == revalidation.current
                n == Len(revalidation'.results)
                r == revalidation'.results[n]
            IN /\ n = Len(revalidation.results) + 1
               /\ SubSeq(revalidation'.results, 1, n - 1) = revalidation.results
               /\ r.sessionId = cur.sid
               /\ r.valid = r.answered
               /\ r.action = (IF r.answered THEN "kept" ELSE "cleared")
               /\ ~r.answered => /\ cur.sid \notin DOMAIN clients'
                                 /\ cur.sid \notin DOMAIN sessions'
               /\ r.answered => clients' = clients /\ sessions' = sessions
               /\ \A sid \in (DOMAIN clients) \ {cur.sid} :
                    /\ sid \in DOMAIN clients' /\ clients'[sid] = clients[sid]
                    /\ sid \in DOMAIN sessions' /\ sessions'[sid] = sessions[sid]]_vars

\* a call over two live sessions has returned, one kept and one cleared
C29_Witness ==
    /\ revalidation.phase = "returned"
    /\ Cardinality(revalidation.live) = 2
    /\ \E i, j \in 1..Len(revalidation.results) :
         /\ revalidation.results[i].valid
         /\ revalidation.results[i].sessionId \in DOMAIN clients
         /\ ~revalidation.results[j].valid
         /\ revalidation.results[j].sessionId \notin DOMAIN clients

----------------------------------------------------------------------------
\* Claims about the ownership of the upstream handles (checked under
\* SpecOwnership)

\* C30: the registry exclusively owns each upstream handle: whenever the stdio
\* server sends a tool's request to the upstream, the handle it uses is the
\* one the registry holds for that handle's session; once the session has
\* been removed, no tools/call is served with its handle.
C30_ExclusiveOwnership ==
    [][(/\ clock' = clock /\ nextSweep' = nextSweep
        /\ rpc'.entry = "stdio" /\ rpc'.method = "tools/call"
        /\ rpc'.params.defined /\ rpc'.params.name # AuthenticateTool
        /\ rpc'.calls = 1) =>
            /\ stdioCurrent.sid \in DOMAIN clients
            /\ clients[stdioCurrent.sid] = stdioCurrent]_vars

----------------------------------------------------------------------------
\* Claims about the stdio server's stream (checked under SpecStdio)

\* C31: within the stdio server's stream, responses are written to stdout in
\* the order in which their requests were read from stdin, even when an
\* earlier request awaits the upstream longer than a later one takes.
C31_ResponsesInRequestOrder ==
    \A i, j \in 1..Len(stdio.stdout) :
        i < j => stdio.stdout[i].seq < stdio.stdout[j].seq

----------------------------------------------------------------------------
\* Claims about the event streams of GET /mcp/execute/:toolName (checked
\* under SpecExecute)

\* C32: when the client closes a streamed connection while its tool
\* execution is in flight, no further event is written to that connection,
\* and the close leaves the sessions and the other connections as they were.
C32_Cancellation ==
    /\ [](\A c \in StreamIds :
            streams[c].closed => Len(streams[c].events) = streams[c].atClose)
    /\ [][\A c \in StreamIds :
            ExecClose(c) =>
                /\ clients' = clients /\ sessions' = sessions
                /\ \A d \in StreamIds \ {c} : streams'[d] = streams[d]]_vars

\* an event stream is well formed: progress events, then one result or one
\* error, then one complete, and it is ended exactly when complete is written
StreamShape(res) ==
    LET e == res.events
        n == Len(e)
    IN /\ \A i \in 1..n : e[i] \in {"progress", "result", "error", "complete"}
       /\ \A i \in 1..n : e[i] # "complete" => \A j \in 1..(i - 1) : e[j] = "progress"
       /\ \A i \in 1..n : e[i] = "complete" =>
              /\ i = n /\ i > 1
              /\ e[i - 1] \in {"result", "error"}
       /\ res.ended <=> (n > 0 /\ e[n] = "complete")
       /\ res.phase = "done" <=> res.ended
       /\ res.phase = "none" => n = 0

\* C35: for every GET /mcp/execute/:toolName request the event stream is zero
\* or more progress events, then exactly one result or error event, then
\* exactly one complete event; then the stream is ended and nothing further
\* is written.
C35_EventStreamShape ==
    /\ [](\A c \in StreamIds : StreamShape(streams[c]))
    /\ [][\A c \in StreamIds : streams[c].ended => streams'[c] = streams[c]]_vars

\* one stream has ended with a result and another with an error
C35_Witness ==
    \E c, d \in StreamIds :
        /\ streams[c].ended /\ streams[d].ended
        /\ \E i \in 1..Len(streams[c].events) : streams[c].events[i] = "result"
        /\ \E i \in 1..Len(streams[d].events) : streams[d].events[i] = "error"
        /\ streams[d].events[1] = "progress"

----------------------------------------------------------------------------
\* Claims about credential and token checks (checked under SpecChecks)

\* C33: a credential or token check whose upstream call times out or cannot
\* connect is reported as a network failure, never as invalid credentials,
\* invalid token or invalid grant (authenticateWithCredentials,
\* verifyAccessToken, verifyToken as used by POST /token, authenticateWithToken).
C33_NetworkFailureNotInvalid ==
    (checked.phase = "done" /\ checked.answer \in NetworkFailures)
        => checked.report \notin InvalidReports

\* the part that holds: authenticateWithCredentials tells a network failure
\* from a rejection
CredentialsTellNetworkFailure ==
    (/\ checked.phase = "done"
     /\ checked.fn = "authenticateWithCredentials"
     /\ checked.answer \in NetworkFailures)
        => checked.report \notin InvalidReports

----------------------------------------------------------------------------
\* Claims about the tool operations of the upstream handle (checked under
\* SpecOperations)

\* the rule for one operation: the failed auxiliary parts are empty in a
\* successful result, the primary request's failure makes the operation throw
FailurePolicy(op) ==
    /\ op.primaryOk => /\ op.outcome = "success"
                       /\ op.primary = "value"
    /\ ~op.primaryOk => op.outcome = "thrown"

\* C34: for every tool operation, a network failure of an auxiliary
\* enrichment call yields a successful result with that part empty, and a
\* network failure of the operation's own primary request makes the
\* operation fail; for get_story_range, get_single_story_details,
\* get_project_overview and list_projects alike.
C34_EnrichmentFailurePolicy ==
    fetched.phase = "done" => FailurePolicy(fetched)

\* the part that holds: the two story operations follow the rule
StoryOperationsFollowPolicy ==
    (fetched.phase = "done"
     /\ fetched.tool \in {"get_story_range", "get_single_story_details"})
        => /\ FailurePolicy(fetched)
           /\ fetched.outcome = "success" => fetched.empty = fetched.auxFailed

----------------------------------------------------------------------------
\* Claims about the registry under interleaved operations

\* C36: validateAllSessions revokes a sessionId only if the handle currently
\* registered under it failed validation: a session replaced under the same
\* sessionId while the validation was awaited is not removed because of the
\* old handle's failure.
C36_RevalidationSparesReplacement ==
    [][(/\ ValidateAllResume
        /\ revalidation.current.sid \in DOMAIN clients
        /\ revalidation.current.sid \notin DOMAIN clients')
          => clients[revalidation.current.sid] = revalidation.current.client]_vars

\* the sessionIds that getClient resolves to a handle
Resolvable ==
    {sid \in SessionHeaders \cup (DOMAIN clients) \cup (DOMAIN sessions) :
        GetClient(clients, sessions, sid, clock).result # NoHandle}

\* C37: the key sets of the clients map and the sessions map are equal in
\* every reachable state, under any interleaving of authenticateWithToken,
\* getClient, clearSession, cleanupExpiredSessions, validateAllSessions and
\* cleanup; before any handle is constructed there are zero sessions, and
\* getSessionCount() equals the number of sessionIds getClient resolves.
C37_KeySetsEqual ==
    /\ DOMAIN clients = DOMAIN sessions
    /\ nextHid = 1 => GetSessionCount(sessions) = 0
    /\ GetSessionCount(sessions) = Cardinality(Resolvable)

\* a session is live while validateAllSessions awaits it, after a sweep has
\* run and getClient has refreshed it
C37_Witness ==
    /\ GetSessionCount(sessions) = 1
    /\ revalidation.phase = "awaiting"
    /\ nextSweep > sweepInterval
    /\ McpDefault \in DOMAIN sessions /\ sessions[McpDefault] > 0

----------------------------------------------------------------------------
\* Claims about POST /sse alone (checked under SpecIsolation)

\* C38: on POST /sse a tools/call of a tool other than authenticate is served
\* only by a handle that an authenticate call with the same X-Session-ID
\* value created (no header counting as one value); a handle established
\* under one header value never serves a request with another.
C38_HeaderIsolation ==
    [][(/\ rpc'.entry = "POST /sse" /\ rpc'.method = "tools/call"
        /\ rpc'.params.defined /\ rpc'.params.name # AuthenticateTool
        /\ rpc'.calls >= 1)
          => LET used == GetClient(clients, sessions,
                                   CallSessionId("/sse", rpc'.session), clock).result
             IN <<used.hid, rpc'.session>> \in establishedBy]_vars

----------------------------------------------------------------------------
\* Claims about POST /v1/sse and the registry (checked under SpecLeak, where
\* no sweep runs)

\* the step in which authenticateWithToken of a POST /v1/sse call returns
V1SseAuthStep == BearerAuthDone /\ event'.route = "POST /v1/sse"

\* C39: a tools/call on POST /v1/sse that authenticateWithToken authenticates
\* with its bearer adds exactly one session entry under a key not used before
\* and is served with the handle just created, not through a registry lookup
\* (a call whose authentication fails adds none and is answered with an
\* error). The entry stays registered after the response: no step of a call
\* removes an entry, so between two sweeps the registry holds one entry per
\* authenticated call.
C39_SuccessfulCallAddsOneSession ==
    /\ [][V1SseAuthStep =>
            IF event'.valid
            THEN /\ event'.sid \notin (DOMAIN clients) \cup bound \cup destroyed
                 /\ DOMAIN clients' = (DOMAIN clients) \cup {event'.sid}
                 /\ \A sid \in DOMAIN clients : clients'[sid] = clients[sid]
                 /\ sessions'[event'.sid] = clock
                 /\ event'.handle = clients'[event'.sid]
                 /\ ~event'.looked
            ELSE /\ clients' = clients /\ sessions' = sessions
                 /\ event'.outcome = "error"]_vars
    /\ [][CallDone => /\ clients' = clients /\ sessions' = sessions
                      /\ event'.sid \in DOMAIN clients
                      /\ clients[event'.sid] = event'.handle]_vars
    /\ [][(DOMAIN clients) \subseteq DOMAIN clients']_vars
    /\ [](DOMAIN clients = bound /\ destroyed = {})

\* two calls have left two entries and the second has been answered
C39_Witness ==
    /\ Cardinality(DOMAIN clients) = 2
    /\ inflight = {}
    /\ event.op = "call" /\ event.route = "POST /v1/sse" /\ event.outcome = "ok"
    /\ destroyed = {}

----------------------------------------------------------------------------
\* Claims about rejected POST /token requests (checked under SpecExchange)

\* C40: a POST /token request that is answered with unsupported_grant_type or
\* invalid_request leaves the code store unchanged: the store, the codes'
\* timers and the set of redeemed codes are what they were, so every code
\* that was pending before the request is still pending, with the value it
\* had.
C40_RejectionKeepsCodes ==
    [][(/\ PostTokenAnyClient
        /\ resp'.error \in {"unsupported_grant_type", "invalid_request"})
          => /\ sessionStore' = sessionStore
             /\ timers' = timers
             /\ redeemed' = redeemed
             /\ \A code \in Codes :
                   MapHas(sessionStore, AuthCodeKey(code))
                     => MapGet(sessionStore', AuthCodeKey(code))
                          = MapGet(sessionStore, AuthCodeKey(code))]_vars

\* a request with another grant type named a pending code and was rejected,
\* and the code is still in the store
C40_Witness ==
    /\ resp.route = "/token" /\ resp.error = "unsupported_grant_type"
    /\ resp.code # NoCode /\ resp.pending
    /\ MapHas(sessionStore, AuthCodeKey(resp.code))

====
